---- MODULE Spec2Model ----
(***************************************************************************)
(* Model of the DEX indexer read model (package indexer, DexReadModel):    *)
(* the in-memory ledger of pools, liquidity positions and the bounded      *)
(* transaction history, updated by HandleEvent under a write lock and read *)
(* by the Query* / Get* methods under a read lock.                         *)
(*                                                                         *)
(* uint64 fields are kept modulo 2^UintBits (a scaled-down machine word),  *)
(* so that unsigned subtraction wraps exactly as it does in Go.            *)
(* float64 shares are kept as exact fractions <<numerator, denominator>>   *)
(* in lowest terms.                                                        *)
(***************************************************************************)
EXTENDS Integers, Sequences, FiniteSets, TLC

\* ------------------------------------------------------------------ bounds
\* Number of events delivered to HandleEvent in one behaviour.
MaxEvents == 3
\* Width of the modelled unsigned word (uint64 in the source, scaled down).
UintBits == 4
\* Largest offset and largest limit a query is called with.
MaxOffset == 2
MaxLimit == 2

\* History cap: `if len(dm.transactions) > 1000`.
MaxTransactions == 1000

Modulus == 2 ^ UintBits

\* ------------------------------------------------------- machine arithmetic
\* uint64 addition and subtraction wrap around.
UAdd(a, b) == (a + b) % Modulus
USub(a, b) == (a - b) % Modulus
\* int64(x) of a uint64: two's complement reinterpretation.
ToInt64(u) == IF u >= Modulus \div 2 THEN u - Modulus ELSE u
\* uint64(x) of an int64 (and the wrap of the int64 sum before it).
ToUint64(i) == i % Modulus

RECURSIVE Gcd(_, _)
Gcd(a, b) == IF b = 0 THEN a ELSE Gcd(b, a % b)

\* An exact fraction in lowest terms.
Frac(n, d) == LET g == Gcd(n, d) IN <<n \div g, d \div g>>

\* float64(amount) / float64(totalLP) * 100, or 0 when totalLP is 0.
ShareOf(amount, totalLP) ==
    IF totalLP > 0 THEN Frac(amount * 100, totalLP) ELSE <<0, 1>>

\* ------------------------------------------------------------------- state
VARIABLES
    pools,          \* dm.pools: pool id -> PoolInfo
    positions,      \* dm.positions: pool id -> sequence of LiquidityPosition
    transactions,   \* dm.transactions: sequence of TransactionInfo
    ret,            \* what the last call returned
    nEvents,        \* number of events delivered so far
    recorded,       \* every record ever appended to the history, in arrival order
    mu,             \* dm.mu: whether it is write-locked, and its number of read locks
    writer,         \* the HandleEvent call in progress in the interleaved model
    readers,        \* the query calls in progress in the interleaved model
    executed,       \* the calls made to r.dexExecutor, in order
    remote,         \* the pool list the pool-data service answers from
    nodeHeight,     \* the block count of the Bitcoin node the oracle asks
    submitted       \* what the oracle handed over for the contract, in order

ledgerVars == <<pools, positions, transactions, ret, nEvents, recorded>>
lockVars == <<mu, writer, readers>>
oracleVars == <<nodeHeight, submitted>>
serviceVars == <<executed, remote, nodeHeight, submitted>>
vars ==
    <<pools, positions, transactions, ret, nEvents, recorded, mu, writer, readers,
      executed, remote, nodeHeight, submitted>>

\* ------------------------------------------------------------------ inputs
PoolIds == {"p1", "p2"}
Users == {"", "alice", "bob"}
AssetsIn == {"HBD", "HIVE", "BTC", ""}
Fees == {8, 30}
DexMethods == {"pool_created", "liquidity_added", "liquidity_removed", "swap_executed"}

\* The zero value of every argument field (what json.Unmarshal leaves for a
\* field the payload does not carry).
ZeroArgs ==
    [pool_id |-> "", user |-> "", asset0 |-> "", asset1 |-> "", fee |-> 0,
     amount0 |-> 0, amount1 |-> 0, lp_tokens |-> 0,
     amount_in |-> 0, amount_out |-> 0, asset_in |-> "", asset_out |-> ""]

\* A VSCEvent; ArgsOK is whether json.Unmarshal accepts the payload.
Event(contract, method, n, ok, args) ==
    [Contract |-> contract, Method |-> method, TxID |-> n,
     BlockHeight |-> 100 + n, ArgsOK |-> ok, Args |-> args]

\* ------------------------------------------------------------ the ledger
MapPut(m, k, v) == [x \in DOMAIN m \cup {k} |-> IF x = k THEN v ELSE m[x]]

NoDetails == [k \in {} |-> 0]

\* The pool a pool_created event stores.
NewPool(a) ==
    [ID |-> a.pool_id, Asset0 |-> a.asset0, Asset1 |-> a.asset1, Fee |-> a.fee,
     Reserve0 |-> 0, Reserve1 |-> 0, TotalSupply |-> 0]

\* Index of the first position of `user` in the list, 0 when there is none.
FindUser(list, user) ==
    LET hits == {i \in 1 .. Len(list) : list[i].User = user}
    IN IF hits = {} THEN 0 ELSE CHOOSE i \in hits : \A j \in hits : i <= j

\* A withdrawal that subtracts from the position without the floor at zero.
NewAmount_NoFloor(old, amount, isAdd) ==
    IF isAdd THEN UAdd(old, amount) ELSE USub(old, amount)

\* The new amount of a position found by updateLiquidityPosition.
NewAmount(old, amount, isAdd) ==
    IF isAdd THEN UAdd(old, amount)
    ELSE IF old > amount THEN old - amount ELSE 0

\* The share recomputation loop at the end of updateLiquidityPosition.
RecomputeShares(list, totalLP) ==
    [i \in 1 .. Len(list) |-> [list[i] EXCEPT !.Share = ShareOf(list[i].Amount, totalLP)]]

\* The search loop of updateLiquidityPosition: the amount of the first position
\* of `user` is changed in place.
UpdateAmount(list, user, amount, isAdd) ==
    LET i == FindUser(list, user)
    IN IF i > 0
       THEN [list EXCEPT ![i].Amount = NewAmount(list[i].Amount, amount, isAdd)]
       ELSE list

\* An append that does not look at whether the search loop found the user.
AppendIfNew_Always(list, found, poolID, user, amount, isAdd) ==
    IF isAdd /\ amount > 0
    THEN Append(list, [User |-> user, PoolID |-> poolID, Amount |-> amount,
                       Share |-> <<0, 1>>])
    ELSE list

\* The append of updateLiquidityPosition: a new position when the search loop
\* found none, the call is a deposit and the amount is positive.
AppendIfNew(list, found, poolID, user, amount, isAdd) ==
    IF ~found /\ isAdd /\ amount > 0
    THEN Append(list, [User |-> user, PoolID |-> poolID, Amount |-> amount,
                       Share |-> <<0, 1>>])
    ELSE list

\* updateLiquidityPosition: P is dm.pools as already updated by the caller.
updateLiquidityPosition(P, Pos, poolID, user, amount, isAdd) ==
    LET list == IF poolID \in DOMAIN Pos THEN Pos[poolID] ELSE <<>>
        found == FindUser(list, user) > 0
        upd == AppendIfNew(UpdateAmount(list, user, amount, isAdd), found,
                           poolID, user, amount, isAdd)
        totalLP == P[poolID].TotalSupply
    IN MapPut(Pos, poolID, RecomputeShares(upd, totalLP))

\* A deposit that credits lp_tokens even when it is zero.
CreditedLP_NoFallback(a) == a.lp_tokens

\* The LP amount a deposit credits.
CreditedLP(a) == IF a.lp_tokens = 0 THEN a.amount0 ELSE a.lp_tokens

\* case "pool_created"
ApplyPoolCreated(P, Pos, a) ==
    [pools |-> MapPut(P, a.pool_id, NewPool(a)), positions |-> Pos]

\* A deposit that creates the pool it names when the ledger has none.
ApplyLiquidityAdded_CreatesPool(P, Pos, a) ==
    LET base == IF a.pool_id \in DOMAIN P
                THEN P[a.pool_id]
                ELSE NewPool([ZeroArgs EXCEPT !.pool_id = a.pool_id])
        pool == [base EXCEPT
                    !.Reserve0 = UAdd(@, a.amount0),
                    !.Reserve1 = UAdd(@, a.amount1),
                    !.TotalSupply = UAdd(@, CreditedLP(a))]
        P2 == MapPut(P, a.pool_id, pool)
    IN [pools |-> P2,
        positions |-> IF a.user # ""
                      THEN updateLiquidityPosition(P2, Pos, a.pool_id, a.user,
                                                   CreditedLP(a), TRUE)
                      ELSE Pos]

\* case "liquidity_added"
ApplyLiquidityAdded(P, Pos, a) ==
    IF a.pool_id \in DOMAIN P
    THEN LET pool == [P[a.pool_id] EXCEPT
                         !.Reserve0 = UAdd(@, a.amount0),
                         !.Reserve1 = UAdd(@, a.amount1),
                         !.TotalSupply = UAdd(@, CreditedLP(a))]
             P2 == MapPut(P, a.pool_id, pool)
         IN [pools |-> P2,
             positions |-> IF a.user # ""
                           THEN updateLiquidityPosition(P2, Pos, a.pool_id, a.user,
                                                        CreditedLP(a), TRUE)
                           ELSE Pos]
    ELSE [pools |-> P, positions |-> Pos]

\* case "liquidity_removed"
ApplyLiquidityRemoved(P, Pos, a) ==
    IF a.pool_id \in DOMAIN P
    THEN LET pool == [P[a.pool_id] EXCEPT
                         !.Reserve0 = USub(@, a.amount0),
                         !.Reserve1 = USub(@, a.amount1),
                         !.TotalSupply = USub(@, a.lp_tokens)]
             P2 == MapPut(P, a.pool_id, pool)
         IN [pools |-> P2,
             positions |-> updateLiquidityPosition(P2, Pos, a.pool_id, a.user,
                                                   a.lp_tokens, FALSE)]
    ELSE [pools |-> P, positions |-> Pos]

\* A swap that takes every directional event as a swap of asset0 for asset1.
ApplySwapExecuted_Asset0In(P, Pos, a) ==
    IF a.pool_id \in DOMAIN P
    THEN LET old == P[a.pool_id]
             pool ==
                 IF a.amount0 # 0 \/ a.amount1 # 0
                 THEN [old EXCEPT
                          !.Reserve0 = ToUint64(ToInt64(@) + a.amount0),
                          !.Reserve1 = ToUint64(ToInt64(@) + a.amount1)]
                 ELSE [old EXCEPT !.Reserve0 = UAdd(@, a.amount_in),
                                  !.Reserve1 = USub(@, a.amount_out)]
         IN [pools |-> MapPut(P, a.pool_id, pool), positions |-> Pos]
    ELSE [pools |-> P, positions |-> Pos]

\* case "swap_executed"
ApplySwapExecuted(P, Pos, a) ==
    IF a.pool_id \in DOMAIN P
    THEN LET old == P[a.pool_id]
             pool ==
                 IF a.amount0 # 0 \/ a.amount1 # 0
                 THEN [old EXCEPT
                          !.Reserve0 = ToUint64(ToInt64(@) + a.amount0),
                          !.Reserve1 = ToUint64(ToInt64(@) + a.amount1)]
                 ELSE IF a.asset_in = old.Asset0
                      THEN [old EXCEPT !.Reserve0 = UAdd(@, a.amount_in),
                                       !.Reserve1 = USub(@, a.amount_out)]
                      ELSE [old EXCEPT !.Reserve1 = UAdd(@, a.amount_in),
                                       !.Reserve0 = USub(@, a.amount_out)]
         IN [pools |-> MapPut(P, a.pool_id, pool), positions |-> Pos]
    ELSE [pools |-> P, positions |-> Pos]

\* The switch on event.Method: its effect on pools and positions.
ApplyMethod(P, Pos, ev) ==
    CASE ev.Method = "pool_created" -> ApplyPoolCreated(P, Pos, ev.Args)
      [] ev.Method = "liquidity_added" -> ApplyLiquidityAdded(P, Pos, ev.Args)
      [] ev.Method = "liquidity_removed" -> ApplyLiquidityRemoved(P, Pos, ev.Args)
      [] ev.Method = "swap_executed" -> ApplySwapExecuted(P, Pos, ev.Args)
      [] OTHER -> [pools |-> P, positions |-> Pos]

\* txInfo.Details as each case of the switch fills it.
DetailsOf(ev) ==
    LET a == ev.Args IN
    CASE ev.Method = "pool_created" ->
             [asset0 |-> a.asset0, asset1 |-> a.asset1, fee |-> a.fee]
      [] ev.Method \in {"liquidity_added", "liquidity_removed"} ->
             [amount0 |-> a.amount0, amount1 |-> a.amount1, lp_tokens |-> a.lp_tokens]
      [] ev.Method = "swap_executed" ->
             [amount0 |-> a.amount0, amount1 |-> a.amount1,
              amount_in |-> a.amount_in, amount_out |-> a.amount_out,
              asset_in |-> a.asset_in, asset_out |-> a.asset_out]
      [] OTHER -> NoDetails

\* A switch whose swap_executed case records a deposit.
TypeOf_SwapAsDeposit(method) ==
    CASE method = "pool_created" -> "pool_created"
      [] method = "liquidity_added" -> "deposit"
      [] method = "liquidity_removed" -> "withdrawal"
      [] method = "swap_executed" -> "deposit"
      [] OTHER -> ""

\* txInfo.Type as each case of the switch sets it.
TypeOf(method) ==
    CASE method = "pool_created" -> "pool_created"
      [] method = "liquidity_added" -> "deposit"
      [] method = "liquidity_removed" -> "withdrawal"
      [] method = "swap_executed" -> "swap"
      [] OTHER -> ""

\* txInfo when the switch is left.
TxInfoOf(ev) ==
    [ID |-> ev.TxID, Type |-> TypeOf(ev.Method),
     PoolID |-> IF ev.Method \in DexMethods THEN ev.Args.pool_id ELSE "",
     User |-> IF ev.Method \in DexMethods \ {"pool_created"} THEN ev.Args.user ELSE "",
     BlockHeight |-> ev.BlockHeight, Timestamp |-> "", Details |-> DetailsOf(ev)]

\* A history that drops the newest record instead of the oldest.
AppendHistory_DropsNewest(Tx, txInfo) ==
    LET t == Append(Tx, txInfo)
    IN IF Len(t) > MaxTransactions THEN SubSeq(t, 1, MaxTransactions) ELSE t

\* Append to the history and keep the last MaxTransactions records.
AppendHistory(Tx, txInfo) ==
    LET t == Append(Tx, txInfo)
    IN IF Len(t) > MaxTransactions THEN Tail(t) ELSE t

\* json.Unmarshal fails: only the four known cases parse the payload.
ParseFails(ev) == ev.Method \in DexMethods /\ ~ev.ArgsOK

\* A handler that records the transaction before it parses the payload.
handleDexRouterEvent_RecordsFirst(P, Pos, Tx, ev) ==
    IF ParseFails(ev)
    THEN [pools |-> P, positions |-> Pos,
          transactions |-> AppendHistory(Tx, TxInfoOf(ev)), err |-> TRUE]
    ELSE LET r == ApplyMethod(P, Pos, ev)
         IN [pools |-> r.pools, positions |-> r.positions,
             transactions |-> AppendHistory(Tx, TxInfoOf(ev)), err |-> FALSE]

\* handleDexRouterEvent
handleDexRouterEvent(P, Pos, Tx, ev) ==
    IF ParseFails(ev)
    THEN [pools |-> P, positions |-> Pos, transactions |-> Tx, err |-> TRUE]
    ELSE LET r == ApplyMethod(P, Pos, ev)
         IN [pools |-> r.pools, positions |-> r.positions,
             transactions |-> AppendHistory(Tx, TxInfoOf(ev)), err |-> FALSE]

\* HandleEvent, lock aside: the switch on event.Contract.
HandleEventResult(P, Pos, Tx, ev) ==
    IF ev.Contract = "dex-router"
    THEN handleDexRouterEvent(P, Pos, Tx, ev)
    ELSE [pools |-> P, positions |-> Pos, transactions |-> Tx, err |-> FALSE]

\* ---------------------------------------------------------------- queries
\* QueryLiquidityPositions: a copy of the stored list, empty for an unknown id.
QueryLiquidityPositionsResult(Pos, poolID) ==
    IF poolID \in DOMAIN Pos THEN Pos[poolID] ELSE <<>>

\* The orders in which `for _, pool := range dm.pools` may visit the map.
PoolOrders(P) ==
    {o \in [1 .. Cardinality(DOMAIN P) -> DOMAIN P] :
        \A i, j \in DOMAIN o : i # j => o[i] # o[j]}

\* QueryPools for one iteration order of the map.
QueryPoolsResult(P, order) == [i \in DOMAIN order |-> P[order[i]]]

\* The zero PoolInfo GetPool returns with exists = false.
ZeroPool ==
    [ID |-> "", Asset0 |-> "", Asset1 |-> "", Fee |-> 0,
     Reserve0 |-> 0, Reserve1 |-> 0, TotalSupply |-> 0]

\* GetPool
GetPoolResult(P, poolID) ==
    IF poolID \in DOMAIN P
    THEN [pool |-> P[poolID], exists |-> TRUE]
    ELSE [pool |-> ZeroPool, exists |-> FALSE]

\* positions[i], positions[j] = positions[j], positions[i] (1-based here).
Swap(list, i, j) == [list EXCEPT ![i] = list[j], ![j] = list[i]]

\* The two nested loops of QueryRichList from (i, j) on: every pair i < j is
\* visited in order and exchanged when positions[i].Amount < positions[j].Amount.
RECURSIVE SortFrom(_, _, _)
SortFrom(list, i, j) ==
    IF i >= Len(list) THEN list
    ELSE IF j > Len(list) THEN SortFrom(list, i + 1, i + 2)
    ELSE IF list[i].Amount < list[j].Amount
         THEN SortFrom(Swap(list, i, j), i, j + 1)
         ELSE SortFrom(list, i, j + 1)

\* A rich list that returns the positions in the order they are stored.
SortByAmountDesc_Unsorted(list) == list

\* The list QueryRichList leaves behind in its `positions` slice.
SortByAmountDesc(list) == SortFrom(list, 1, 2)

\* The pagination of QueryRichList over the sorted slice (offset, limit >= 0).
Paginate(sorted, offset, limit) ==
    LET end == IF offset + limit > Len(sorted) THEN Len(sorted) ELSE offset + limit
    IN IF offset >= Len(sorted) THEN <<>> ELSE SubSeq(sorted, offset + 1, end)

\* QueryRichList: what it returns.
QueryRichListResult(Pos, poolID, offset, limit) ==
    IF poolID \in DOMAIN Pos
    THEN Paginate(SortByAmountDesc(Pos[poolID]), offset, limit)
    ELSE <<>>

\* QueryRichList: dm.positions afterwards. `positions` shares its backing
\* array with dm.positions[poolID], so the exchanges are made in the ledger.
QueryRichListStore(Pos, poolID) ==
    IF poolID \in DOMAIN Pos
    THEN [Pos EXCEPT ![poolID] = SortByAmountDesc(Pos[poolID])]
    ELSE Pos

\* The loop of QueryTransactions from index i down to 1, `filtered` so far.
RECURSIVE FilterFrom(_, _, _, _, _, _)
FilterFrom(Tx, i, poolID, txType, limit, filtered) ==
    IF i < 1 THEN filtered
    ELSE IF (poolID # "" /\ Tx[i].PoolID # poolID) \/ (txType # "" /\ Tx[i].Type # txType)
         THEN FilterFrom(Tx, i - 1, poolID, txType, limit, filtered)
         ELSE LET f == Append(filtered, Tx[i])
              IN IF Len(f) >= limit THEN f
                 ELSE FilterFrom(Tx, i - 1, poolID, txType, limit, f)

\* QueryTransactions
QueryTransactionsResult(Tx, poolID, txType, limit) ==
    FilterFrom(Tx, Len(Tx), poolID, txType, limit, <<>>)

\* The zero TransactionInfo GetTransaction returns with found = false.
ZeroTx ==
    [ID |-> 0, Type |-> "", PoolID |-> "", User |-> "", BlockHeight |-> 0,
     Timestamp |-> "", Details |-> NoDetails]

\* A lookup that starts at the second retained record.
GetTransactionResult_SkipsOldest(Tx, txID) ==
    LET hits == {i \in 2 .. Len(Tx) : Tx[i].ID = txID}
    IN IF hits = {}
       THEN [tx |-> ZeroTx, found |-> FALSE]
       ELSE [tx |-> Tx[CHOOSE i \in hits : \A j \in hits : i <= j], found |-> TRUE]

\* GetTransaction: the first record with the id, oldest first.
GetTransactionResult(Tx, txID) ==
    LET hits == {i \in 1 .. Len(Tx) : Tx[i].ID = txID}
    IN IF hits = {}
       THEN [tx |-> ZeroTx, found |-> FALSE]
       ELSE [tx |-> Tx[CHOOSE i \in hits : \A j \in hits : i <= j], found |-> TRUE]

\* ------------------------------------------------------- the event stream
\* The events delivered to HandleEvent. The n-th event delivered carries
\* transaction id n and block height 100 + n.
Router == "dex-router"

\* <<amount0, amount1, lp_tokens>> of a deposit: the legacy form without
\* lp_tokens (credits amount0) and an explicit lp_tokens.
AddAmounts == {<<1, 2, 0>>, <<1, 1, 2>>}
\* A deposit that credits no LP tokens.
EmptyAddAmounts == {<<0, 1, 0>>}
\* <<amount0, amount1, lp_tokens>> of a withdrawal.
RemoveAmounts == {<<1, 0, 1>>, <<0, 1, 2>>}
\* <<amount0, amount1>> signed reserve deltas of a legacy swap.
LegacyDeltas == {<<1, -1>>, <<-2, 1>>}
\* <<amount_in, amount_out>> of a directional swap.
SwapAmounts == {<<2, 1>>}

\* Pool "p1" receives every kind of event; pool "p2" stands beside it and is
\* only created and deposited into.
PoolCreatedEvents(n) ==
    {Event(Router, "pool_created", n, TRUE,
           [ZeroArgs EXCEPT !.pool_id = "p1", !.asset0 = "HBD", !.asset1 = "HIVE",
                            !.fee = f]) : f \in Fees} \cup
    {Event(Router, "pool_created", n, TRUE,
           [ZeroArgs EXCEPT !.pool_id = "p2", !.asset0 = "BTC", !.asset1 = "HBD",
                            !.fee = 30])}

\* The empty deposit is delivered for one user only.
LiquidityAddedEvents(n) ==
    {Event(Router, "liquidity_added", n, TRUE,
           [ZeroArgs EXCEPT !.pool_id = "p1", !.user = u, !.amount0 = t[1],
                            !.amount1 = t[2], !.lp_tokens = t[3]]) :
        u \in Users, t \in AddAmounts} \cup
    {Event(Router, "liquidity_added", n, TRUE,
           [ZeroArgs EXCEPT !.pool_id = p, !.user = "alice", !.amount0 = t[1],
                            !.amount1 = t[2], !.lp_tokens = t[3]]) :
        p \in PoolIds, t \in EmptyAddAmounts} \cup
    {Event(Router, "liquidity_added", n, TRUE,
           [ZeroArgs EXCEPT !.pool_id = "p2", !.user = "alice", !.amount0 = 1,
                            !.amount1 = 2, !.lp_tokens = 2])}

LiquidityRemovedEvents(n) ==
    {Event(Router, "liquidity_removed", n, TRUE,
           [ZeroArgs EXCEPT !.pool_id = "p1", !.user = u, !.amount0 = t[1],
                            !.amount1 = t[2], !.lp_tokens = t[3]]) :
        u \in Users \ {""}, t \in RemoveAmounts}

\* Legacy encoding: signed reserve deltas, at least one of them non-zero.
LegacySwapEvents(n) ==
    {Event(Router, "swap_executed", n, TRUE,
           [ZeroArgs EXCEPT !.pool_id = "p1", !.user = "alice", !.amount0 = d[1],
                            !.amount1 = d[2]]) :
        d \in LegacyDeltas}

\* Directional encoding: asset_in / asset_out with amount_in / amount_out.
DirectionalSwapEvents(n) ==
    {Event(Router, "swap_executed", n, TRUE,
           [ZeroArgs EXCEPT !.pool_id = "p1", !.user = "alice", !.amount_in = t[1],
                            !.amount_out = t[2], !.asset_in = asset,
                            !.asset_out = IF asset = "HBD" THEN "HIVE" ELSE "HBD"]) :
        asset \in AssetsIn, t \in SwapAmounts}

\* The events that reference a pool without creating it.
PoolUseEvents(n) ==
    LiquidityAddedEvents(n) \cup LiquidityRemovedEvents(n) \cup LegacySwapEvents(n)
        \cup DirectionalSwapEvents(n)

\* A payload json.Unmarshal rejects, for each of the four methods.
MalformedEvents(n) ==
    {Event(Router, m, n, FALSE, ZeroArgs) : m \in DexMethods}

\* A method the router switch has no case for.
UnknownMethodEvents(n) ==
    {Event(Router, "pool_removed", n, TRUE, [ZeroArgs EXCEPT !.pool_id = "p1"])}

\* An event of another contract, whatever its method.
OtherContractEvents(n) ==
    {Event("btc-mapping", m, n, TRUE, [ZeroArgs EXCEPT !.pool_id = "p1"]) :
        m \in {"pool_created", "mint"}}

\* ------------------------------------------------------------ the actions
\* The goroutines that call the queries in the interleaved model.
Readers == {"r1", "r2"}

NoEvent == Event("", "", 0, TRUE, ZeroArgs)
EmptyLedger == [pools |-> <<>>, positions |-> <<>>, transactions |-> <<>>]
IdleWriter ==
    [pc |-> "idle", ev |-> NoEvent, pre |-> EmptyLedger, found |-> FALSE, err |-> FALSE]
IdleReader == [pc |-> "idle", query |-> <<>>, obs |-> <<>>]

Init ==
    /\ pools = <<>>
    /\ positions = <<>>
    /\ transactions = <<>>
    /\ ret = [op |-> "NewDexReadModel"]
    /\ nEvents = 0
    /\ recorded = <<>>
    /\ mu = [writer |-> FALSE, readers |-> 0]
    /\ writer = IdleWriter
    /\ readers = [r \in Readers |-> IdleReader]
    /\ executed = <<>>
    /\ remote = <<>>
    /\ nodeHeight = 0
    /\ submitted = <<>>

\* HandleEvent(event), the whole call under dm.mu.Lock().
HandleEvent(ev) ==
    /\ LET r == HandleEventResult(pools, positions, transactions, ev)
       IN /\ pools' = r.pools
          /\ positions' = r.positions
          /\ transactions' = r.transactions
          /\ ret' = [op |-> "HandleEvent", event |-> ev, err |-> r.err]
    /\ nEvents' = nEvents + 1
    /\ recorded' = IF ev.Contract = Router /\ ~ParseFails(ev)
                   THEN Append(recorded, TxInfoOf(ev))
                   ELSE recorded
    /\ UNCHANGED lockVars
    /\ UNCHANGED serviceVars

PoolCreated ==
    /\ nEvents < MaxEvents
    /\ \E ev \in PoolCreatedEvents(nEvents + 1) : HandleEvent(ev)
LiquidityAdded ==
    /\ nEvents < MaxEvents
    /\ \E ev \in LiquidityAddedEvents(nEvents + 1) : HandleEvent(ev)
LiquidityRemoved ==
    /\ nEvents < MaxEvents
    /\ \E ev \in LiquidityRemovedEvents(nEvents + 1) : HandleEvent(ev)
LegacySwap ==
    /\ nEvents < MaxEvents
    /\ \E ev \in LegacySwapEvents(nEvents + 1) : HandleEvent(ev)
DirectionalSwap ==
    /\ nEvents < MaxEvents
    /\ \E ev \in DirectionalSwapEvents(nEvents + 1) : HandleEvent(ev)
Malformed ==
    /\ nEvents < MaxEvents
    /\ \E ev \in MalformedEvents(nEvents + 1) : HandleEvent(ev)
UnknownMethod ==
    /\ nEvents < MaxEvents
    /\ \E ev \in UnknownMethodEvents(nEvents + 1) : HandleEvent(ev)
OtherContract ==
    /\ nEvents < MaxEvents
    /\ \E ev \in OtherContractEvents(nEvents + 1) : HandleEvent(ev)

Next ==
    \/ PoolCreated
    \/ LiquidityAdded
    \/ LiquidityRemoved
    \/ LegacySwap
    \/ DirectionalSwap
    \/ Malformed
    \/ UnknownMethod
    \/ OtherContract

Spec == Init /\ [][Next]_vars

\* ------------------------------------------------ the ledger with queries
\* The queries as calls, each under dm.mu.RLock(), between the events of a
\* short stream on pool "p1" with a second pool beside it.
QueryStreamEvents(n) ==
    {Event(Router, "pool_created", n, TRUE,
           [ZeroArgs EXCEPT !.pool_id = p, !.asset0 = "HBD", !.asset1 = "HIVE",
                            !.fee = 30]) : p \in PoolIds} \cup
    {Event(Router, "liquidity_added", n, TRUE,
           [ZeroArgs EXCEPT !.pool_id = "p1", !.user = u, !.amount0 = t[1],
                            !.amount1 = t[2], !.lp_tokens = t[3]]) :
        u \in Users \ {""}, t \in AddAmounts} \cup
    {Event(Router, "liquidity_removed", n, TRUE,
           [ZeroArgs EXCEPT !.pool_id = "p1", !.user = "alice", !.amount0 = 1,
                            !.amount1 = 0, !.lp_tokens = 1]),
     Event(Router, "swap_executed", n, TRUE,
           [ZeroArgs EXCEPT !.pool_id = "p1", !.user = "bob", !.amount_in = 2,
                            !.amount_out = 1, !.asset_in = "HBD", !.asset_out = "HIVE"])}

Offsets == 0 .. MaxOffset
Limits == 0 .. MaxLimit
TxTypes == {"", "deposit", "swap"}
TxPoolFilters == {"", "p1"}
TxIds == 0 .. MaxEvents

DeliverEvent ==
    /\ nEvents < MaxEvents
    /\ \E ev \in QueryStreamEvents(nEvents + 1) : HandleEvent(ev)

QueryPools ==
    /\ \E order \in PoolOrders(pools) :
           ret' = [op |-> "QueryPools", result |-> QueryPoolsResult(pools, order)]
    /\ UNCHANGED <<pools, positions, transactions, nEvents, recorded, lockVars>>
    /\ UNCHANGED serviceVars

GetPool ==
    /\ \E id \in PoolIds :
           ret' = [op |-> "GetPool", args |-> <<id>>, result |-> GetPoolResult(pools, id)]
    /\ UNCHANGED <<pools, positions, transactions, nEvents, recorded, lockVars>>
    /\ UNCHANGED serviceVars

QueryLiquidityPositions ==
    /\ \E id \in PoolIds :
           ret' = [op |-> "QueryLiquidityPositions", args |-> <<id>>,
                   result |-> QueryLiquidityPositionsResult(positions, id)]
    /\ UNCHANGED <<pools, positions, transactions, nEvents, recorded, lockVars>>
    /\ UNCHANGED serviceVars

QueryRichList ==
    /\ \E id \in PoolIds, offset \in Offsets, limit \in Limits :
           /\ ret' = [op |-> "QueryRichList", args |-> <<id, offset, limit>>,
                      result |-> QueryRichListResult(positions, id, offset, limit)]
           /\ positions' = QueryRichListStore(positions, id)
    /\ UNCHANGED <<pools, transactions, nEvents, recorded, lockVars>>
    /\ UNCHANGED serviceVars

QueryTransactions ==
    /\ \E id \in TxPoolFilters, type \in TxTypes, limit \in Limits :
           ret' = [op |-> "QueryTransactions", args |-> <<id, type, limit>>,
                   result |-> QueryTransactionsResult(transactions, id, type, limit)]
    /\ UNCHANGED <<pools, positions, transactions, nEvents, recorded, lockVars>>
    /\ UNCHANGED serviceVars

GetTransaction ==
    /\ \E id \in TxIds :
           ret' = [op |-> "GetTransaction", args |-> <<id>>,
                   result |-> GetTransactionResult(transactions, id)]
    /\ UNCHANGED <<pools, positions, transactions, nEvents, recorded, lockVars>>
    /\ UNCHANGED serviceVars

NextQuery ==
    \/ DeliverEvent
    \/ QueryPools
    \/ GetPool
    \/ QueryLiquidityPositions
    \/ QueryRichList
    \/ QueryTransactions
    \/ GetTransaction

SpecQuery == Init /\ [][NextQuery]_vars

\* ------------------------------------------------- the interleaved model
\* HandleEvent and the read-only queries as goroutines that take dm.mu and
\* then run statement by statement: the writer stores the pool, changes the
\* position amount in place, recomputes the shares and stores the list, appends
\* to the history, and unlocks; a reader reads its collection and unlocks.

\* sync.RWMutex: Lock waits until nobody holds the mutex.
CanLock(m) == ~m.writer /\ m.readers = 0

\* A read lock that does not wait for the writer.
CanRLock_NoWait(m) == TRUE

\* sync.RWMutex: RLock waits while the mutex is write-locked.
CanRLock(m) == ~m.writer

ConcurrentEvents(n) ==
    {Event(Router, "pool_created", n, TRUE,
           [ZeroArgs EXCEPT !.pool_id = "p1", !.asset0 = "HBD", !.asset1 = "HIVE",
                            !.fee = 30]),
     Event(Router, "liquidity_added", n, TRUE,
           [ZeroArgs EXCEPT !.pool_id = "p1", !.user = "alice", !.amount0 = 1,
                            !.amount1 = 2]),
     Event(Router, "liquidity_added", n, TRUE,
           [ZeroArgs EXCEPT !.pool_id = "p1", !.user = "bob", !.amount0 = 1,
                            !.amount1 = 1, !.lp_tokens = 2]),
     Event(Router, "liquidity_removed", n, TRUE,
           [ZeroArgs EXCEPT !.pool_id = "p1", !.user = "alice", !.amount0 = 1,
                            !.amount1 = 0, !.lp_tokens = 1]),
     Event(Router, "swap_executed", n, TRUE,
           [ZeroArgs EXCEPT !.pool_id = "p1", !.user = "bob", !.amount_in = 2,
                            !.amount_out = 1, !.asset_in = "HBD", !.asset_out = "HIVE"]),
     Event(Router, "swap_executed", n, FALSE, ZeroArgs),
     Event("btc-mapping", "mint", n, TRUE, ZeroArgs)}

\* The read-only queries a reader may call, with their arguments.
ConcurrentQueries ==
    {<<"QueryPools">>, <<"GetPool", "p1">>, <<"QueryLiquidityPositions", "p1">>,
     <<"QueryTransactions", "", "", MaxLimit>>, <<"GetTransaction", 2>>}

\* What query q returns on ledger L (QueryPools: as the set it lists).
QueryResult(q, L) ==
    CASE q[1] = "QueryPools" -> {L.pools[id] : id \in DOMAIN L.pools}
      [] q[1] = "GetPool" -> GetPoolResult(L.pools, q[2])
      [] q[1] = "QueryLiquidityPositions" -> QueryLiquidityPositionsResult(L.positions, q[2])
      [] q[1] = "QueryTransactions" -> QueryTransactionsResult(L.transactions, q[2], q[3], q[4])
      [] q[1] = "GetTransaction" -> GetTransactionResult(L.transactions, q[2])

Ledger == [pools |-> pools, positions |-> positions, transactions |-> transactions]

\* Whether the case of the event calls updateLiquidityPosition.
UpdatesPosition(P, ev) ==
    /\ ev.Args.pool_id \in DOMAIN P
    /\ \/ ev.Method = "liquidity_added" /\ ev.Args.user # ""
       \/ ev.Method = "liquidity_removed"

\* dm.mu.Lock() at the head of HandleEvent(ev).
WriterLock ==
    /\ writer.pc = "idle"
    /\ nEvents < MaxEvents
    /\ CanLock(mu)
    /\ \E ev \in ConcurrentEvents(nEvents + 1) :
           writer' = [pc |-> "switch", ev |-> ev, pre |-> Ledger, found |-> FALSE,
                      err |-> FALSE]
    /\ mu' = [mu EXCEPT !.writer = TRUE]
    /\ nEvents' = nEvents + 1
    /\ UNCHANGED <<pools, positions, transactions, ret, recorded, readers>>
    /\ UNCHANGED serviceVars

\* The two switches and json.Unmarshal, down to dm.pools[args.PoolID] = pool.
WriterSwitch ==
    /\ writer.pc = "switch"
    /\ LET ev == writer.ev IN
       IF ev.Contract # Router
       THEN /\ writer' = [writer EXCEPT !.pc = "unlock"]
            /\ UNCHANGED pools
       ELSE IF ParseFails(ev)
       THEN /\ writer' = [writer EXCEPT !.pc = "unlock", !.err = TRUE]
            /\ UNCHANGED pools
       ELSE /\ pools' = ApplyMethod(pools, positions, ev).pools
            /\ writer' = [writer EXCEPT
                             !.pc = IF UpdatesPosition(pools, ev) THEN "amount" ELSE "history"]
    /\ UNCHANGED <<positions, transactions, ret, nEvents, recorded, mu, readers>>
    /\ UNCHANGED serviceVars

\* The arguments of the call of updateLiquidityPosition the event makes.
UpdateIsAdd(ev) == ev.Method = "liquidity_added"
UpdateAmountOf(ev) == IF UpdateIsAdd(ev) THEN CreditedLP(ev.Args) ELSE ev.Args.lp_tokens

\* updateLiquidityPosition, its search loop: positions[i] = pos writes into the
\* list the ledger holds; `found` is kept for the rest of the function.
WriterAmount ==
    /\ writer.pc = "amount"
    /\ LET a == writer.ev.Args
           list == QueryLiquidityPositionsResult(positions, a.pool_id)
       IN /\ positions' =
                 IF a.pool_id \in DOMAIN positions
                 THEN [positions EXCEPT
                          ![a.pool_id] = UpdateAmount(list, a.user, UpdateAmountOf(writer.ev),
                                                      UpdateIsAdd(writer.ev))]
                 ELSE positions
          /\ writer' = [writer EXCEPT !.pc = "shares", !.found = FindUser(list, a.user) > 0]
    /\ UNCHANGED <<pools, transactions, ret, nEvents, recorded, mu, readers>>
    /\ UNCHANGED serviceVars

\* updateLiquidityPosition, the rest: the append, the share loop and
\* dm.positions[poolID] = positions.
WriterShares ==
    /\ writer.pc = "shares"
    /\ LET a == writer.ev.Args
           list == QueryLiquidityPositionsResult(positions, a.pool_id)
           upd == AppendIfNew(list, writer.found, a.pool_id, a.user,
                              UpdateAmountOf(writer.ev), UpdateIsAdd(writer.ev))
       IN positions' = MapPut(positions, a.pool_id,
                              RecomputeShares(upd, pools[a.pool_id].TotalSupply))
    /\ writer' = [writer EXCEPT !.pc = "history"]
    /\ UNCHANGED <<pools, transactions, ret, nEvents, recorded, mu, readers>>
    /\ UNCHANGED serviceVars

\* The append to dm.transactions and its trim.
WriterHistory ==
    /\ writer.pc = "history"
    /\ transactions' = AppendHistory(transactions, TxInfoOf(writer.ev))
    /\ recorded' = Append(recorded, TxInfoOf(writer.ev))
    /\ writer' = [writer EXCEPT !.pc = "unlock"]
    /\ UNCHANGED <<pools, positions, ret, nEvents, mu, readers>>
    /\ UNCHANGED serviceVars

\* The deferred dm.mu.Unlock() and the return.
WriterUnlock ==
    /\ writer.pc = "unlock"
    /\ mu' = [mu EXCEPT !.writer = FALSE]
    /\ ret' = [op |-> "HandleEvent", event |-> writer.ev, err |-> writer.err]
    /\ writer' = IdleWriter
    /\ UNCHANGED <<pools, positions, transactions, nEvents, recorded, readers>>
    /\ UNCHANGED serviceVars

\* dm.mu.RLock() at the head of a query.
ReaderLock(r) ==
    /\ readers[r].pc = "idle"
    /\ CanRLock(mu)
    /\ \E q \in ConcurrentQueries :
           readers' = [readers EXCEPT ![r] = [pc |-> "read", query |-> q, obs |-> <<>>]]
    /\ mu' = [mu EXCEPT !.readers = @ + 1]
    /\ UNCHANGED <<ledgerVars, writer>>
    /\ UNCHANGED serviceVars

\* The body of the query: it reads its collection.
ReaderRead(r) ==
    /\ readers[r].pc = "read"
    /\ readers' = [readers EXCEPT
                      ![r].pc = "unlock",
                      ![r].obs = QueryResult(readers[r].query, Ledger)]
    /\ UNCHANGED <<ledgerVars, mu, writer>>
    /\ UNCHANGED serviceVars

\* The deferred dm.mu.RUnlock() and the return.
ReaderUnlock(r) ==
    /\ readers[r].pc = "unlock"
    /\ mu' = [mu EXCEPT !.readers = @ - 1]
    /\ readers' = [readers EXCEPT ![r] = IdleReader]
    /\ UNCHANGED <<ledgerVars, writer>>
    /\ UNCHANGED serviceVars

ReaderLocks == \E r \in Readers : ReaderLock(r)
ReaderReads == \E r \in Readers : ReaderRead(r)
ReaderUnlocks == \E r \in Readers : ReaderUnlock(r)

NextConcurrent ==
    \/ WriterLock
    \/ WriterSwitch
    \/ WriterAmount
    \/ WriterShares
    \/ WriterHistory
    \/ WriterUnlock
    \/ ReaderLocks
    \/ ReaderReads
    \/ ReaderUnlocks

SpecConcurrent == Init /\ [][NextConcurrent]_vars

\* ---------------------------------------------------- a long event stream
\* One fixed stream, long enough to overflow the history: a pool is created,
\* then deposits, swaps, withdrawals and unhandled methods follow in turn,
\* with a malformed payload every tenth event.
StreamLength == MaxTransactions + 120

StreamEvent(n) ==
    CASE n = 1 ->
             Event(Router, "pool_created", n, TRUE,
                   [ZeroArgs EXCEPT !.pool_id = "p1", !.asset0 = "HBD", !.asset1 = "HIVE",
                                    !.fee = 30])
      [] n > 1 /\ n % 10 = 0 ->
             Event(Router, "liquidity_added", n, FALSE, ZeroArgs)
      [] n > 1 /\ n % 10 \in {1, 5, 9} ->
             Event(Router, "liquidity_added", n, TRUE,
                   [ZeroArgs EXCEPT !.pool_id = "p1", !.user = "alice", !.amount0 = 1,
                                    !.amount1 = 2])
      [] n > 1 /\ n % 10 \in {2, 6} ->
             Event(Router, "swap_executed", n, TRUE,
                   [ZeroArgs EXCEPT !.pool_id = "p1", !.user = "bob", !.amount_in = 2,
                                    !.amount_out = 1, !.asset_in = "HBD",
                                    !.asset_out = "HIVE"])
      [] n > 1 /\ n % 10 \in {3, 7} ->
             Event(Router, "liquidity_removed", n, TRUE,
                   [ZeroArgs EXCEPT !.pool_id = "p1", !.user = "alice", !.amount0 = 1,
                                    !.amount1 = 0, !.lp_tokens = 1])
      [] n > 1 /\ n % 10 = 4 ->
             Event(Router, "swap_executed", n, TRUE,
                   [ZeroArgs EXCEPT !.pool_id = "p2", !.user = "bob", !.amount0 = 1,
                                    !.amount1 = -1])
      [] OTHER ->
             Event(Router, "pool_removed", n, TRUE, ZeroArgs)

StreamStep ==
    /\ nEvents < StreamLength
    /\ HandleEvent(StreamEvent(nEvents + 1))

SpecStream == Init /\ [][StreamStep]_vars

\* The same stream with GetTransaction called between its events, for ids
\* that are never recorded (0, the malformed event 10, one past the stream),
\* ids among the first records, which the history drops once it is full, and
\* an id recorded late.
LookupIds == {0, 1, 2, 3, 10, MaxTransactions + 101, StreamLength + 1}

StreamLookup ==
    /\ \E id \in LookupIds :
           ret' = [op |-> "GetTransaction", args |-> <<id>>,
                   result |-> GetTransactionResult(transactions, id)]
    /\ UNCHANGED <<pools, positions, transactions, nEvents, recorded, lockVars>>
    /\ UNCHANGED serviceVars

NextLookup ==
    \/ StreamStep
    \/ StreamLookup

SpecLookup == Init /\ [][NextLookup]_vars

\* ------------------------------------------------- the rich list of a pool
\* Three holders deposit into pool "p1" in any order, one or two LP tokens at
\* a time, and the rich list is read between the deposits. One event more than
\* in the other models is delivered: the creation of the pool and then a
\* deposit of each holder.
Holders == {"alice", "bob", "carol"}
RichListLength == MaxEvents + 1

RichListEvents(n) ==
    {Event(Router, "pool_created", n, TRUE,
           [ZeroArgs EXCEPT !.pool_id = "p1", !.asset0 = "HBD", !.asset1 = "HIVE",
                            !.fee = 30])} \cup
    {Event(Router, "liquidity_added", n, TRUE,
           [ZeroArgs EXCEPT !.pool_id = "p1", !.user = u, !.amount0 = 1, !.amount1 = 1,
                            !.lp_tokens = 1]) : u \in Holders} \cup
    {Event(Router, "liquidity_added", n, TRUE,
           [ZeroArgs EXCEPT !.pool_id = "p1", !.user = u, !.amount0 = 2, !.amount1 = 2,
                            !.lp_tokens = 2]) : u \in {"bob", "carol"}}

RichListDeposit ==
    /\ nEvents < RichListLength
    /\ \E ev \in RichListEvents(nEvents + 1) : HandleEvent(ev)

NextRichList ==
    \/ RichListDeposit
    \/ QueryRichList

SpecRichList == Init /\ [][NextRichList]_vars

\* ------------------------------------------------------ the router service
\* Service of services/router: ComputeRoute and ExecuteSwap with the executor
\* they call. The pool-data service stands beside it with the list of pools it
\* would answer from; its fee is a decimal percent, held here as the number of
\* hundredths of a percent (8 stands for 0.08).
Assets == {"BTC", "HBD", "HIVE"}

\* The number of executor calls after which no further request is made.
MaxCalls == 2

\* An IndexerPoolInfo of the pool list.
RemotePool(id, asset0, asset1, reserve0, reserve1, fee) ==
    [ID |-> id, Asset0 |-> asset0, Asset1 |-> asset1, Reserve0 |-> reserve0,
     Reserve1 |-> reserve1, Fee |-> fee, TotalSupply |-> 0]

\* The pool lists the router is placed beside: none; one pool (HBD, HIVE);
\* two pools that chain BTC - HBD - HIVE; the same with a pool (BTC, HIVE)
\* added; and the chain with the HIVE reserve of its second pool at zero.
RouterPoolLists ==
    LET hbdHive == RemotePool("pA", "HBD", "HIVE", 1000, 500, 8)
        btcHbd == RemotePool("pB", "BTC", "HBD", 10, 1000, 30)
        btcHive == RemotePool("pC", "BTC", "HIVE", 10, 600, 30)
        drained == RemotePool("pA", "HBD", "HIVE", 1000, 0, 8)
    IN {<<>>, <<hbdHive>>, <<hbdHive, btcHbd>>, <<hbdHive, btcHbd, btcHive>>,
        <<drained, btcHbd>>}

\* The SwapParams of the requests: a minimum output or a slippage limit, or
\* neither, is given with each.
SwapParamsSet ==
    {p \in [Sender : {"alice"}, AmountIn : {10}, AssetIn : Assets,
            AssetOut : Assets, MinAmountOut : {0, 7}, MaxSlippage : {0, 50},
            Beneficiary : {""}, RefBps : {0}] :
        p.MinAmountOut = 0 \/ p.MaxSlippage = 0}

\* fmt.Sprintf("%d", n): the decimal digits of n.
DecimalString(n) == [decimal |-> n]

\* The payload map of ExecuteSwap with its optional fields.
SwapPayload(params) ==
    [type |-> "swap", version |-> "1.0.0", asset_in |-> params.AssetIn,
     asset_out |-> params.AssetOut, recipient |-> params.Sender,
     min_amount_out |-> params.MinAmountOut]
      @@ (IF params.MaxSlippage > 0
          THEN [slippage_bps |-> params.MaxSlippage] ELSE NoDetails)
      @@ (IF params.Beneficiary # ""
          THEN [beneficiary |-> params.Beneficiary] ELSE NoDetails)
      @@ (IF params.RefBps > 0 THEN [ref_bps |-> params.RefBps] ELSE NoDetails)

\* Intents that allow the transfer of the output asset.
SwapIntents_AssetOut(params) ==
    <<[Type |-> "transfer.allow",
       Args |-> [limit |-> DecimalString(params.AmountIn), token |-> params.AssetOut]]>>

\* The intents of ExecuteSwap.
SwapIntents(params) ==
    <<[Type |-> "transfer.allow",
       Args |-> [limit |-> DecimalString(params.AmountIn), token |-> params.AssetIn]]>>

\* A SwapResult with Success false: the other fields keep their zero values.
FailedResult(message) ==
    [Success |-> FALSE, AmountOut |-> 0, Fee |-> 0, Route |-> <<>>,
     ErrorMessage |-> message]

\* An ExecuteSwap without the check of its input.
ExecuteSwapResult_NoValidation(params, executorFails) ==
    [result |->
         IF executorFails
         THEN FailedResult("swap execution failed")
         ELSE [Success |-> TRUE, AmountOut |-> params.MinAmountOut, Fee |-> 0,
               Route |-> <<"direct">>, ErrorMessage |-> ""],
     calls |-> <<[op |-> "ExecuteDexOperationWithIntents",
                  operationType |-> "execute",
                  payload |-> SwapPayload(params),
                  intents |-> SwapIntents(params)]>>]

\* ExecuteSwap: the SwapResult it returns and the executor calls it makes,
\* given whether the executor returns an error. json.Marshal cannot fail on a
\* map of strings and integers. The Go error returned is nil on every path.
ExecuteSwapResult(params, executorFails) ==
    IF params.AssetIn = params.AssetOut
    THEN [result |-> FailedResult("cannot swap asset to itself"), calls |-> <<>>]
    ELSE [result |->
              IF executorFails
              THEN FailedResult("swap execution failed")
              ELSE [Success |-> TRUE, AmountOut |-> params.MinAmountOut, Fee |-> 0,
                    Route |-> <<"direct">>, ErrorMessage |-> ""],
          calls |-> <<[op |-> "ExecuteDexOperationWithIntents",
                       operationType |-> "execute",
                       payload |-> SwapPayload(params),
                       intents |-> SwapIntents(params)]>>]

\* ComputeRoute returns s.ExecuteSwap(params).
ComputeRouteResult(params, executorFails) == ExecuteSwapResult(params, executorFails)

InitRouter ==
    /\ pools = <<>>
    /\ positions = <<>>
    /\ transactions = <<>>
    /\ ret = [op |-> "NewService"]
    /\ nEvents = 0
    /\ recorded = <<>>
    /\ mu = [writer |-> FALSE, readers |-> 0]
    /\ writer = IdleWriter
    /\ readers = [r \in Readers |-> IdleReader]
    /\ executed = <<>>
    /\ remote \in RouterPoolLists
    /\ nodeHeight = 0
    /\ submitted = <<>>

ComputeRoute ==
    /\ Len(executed) < MaxCalls
    /\ \E params \in SwapParamsSet, executorFails \in BOOLEAN :
           LET r == ComputeRouteResult(params, executorFails)
           IN /\ ret' = [op |-> "ComputeRoute", params |-> params,
                         result |-> r.result, err |-> "nil"]
              /\ executed' = executed \o r.calls
    /\ UNCHANGED <<pools, positions, transactions, nEvents, recorded, lockVars, remote>>
    /\ UNCHANGED oracleVars

\* ExecuteSwap called directly; executorErr is whether the call it made to
\* the executor returned an error.
ExecuteSwap ==
    /\ Len(executed) < MaxCalls
    /\ \E params \in SwapParamsSet, executorFails \in BOOLEAN :
           LET r == ExecuteSwapResult(params, executorFails)
           IN /\ ret' = [op |-> "ExecuteSwap", params |-> params,
                         result |-> r.result,
                         executorErr |-> (r.calls # <<>> /\ executorFails),
                         err |-> "nil"]
              /\ executed' = executed \o r.calls
    /\ UNCHANGED <<pools, positions, transactions, nEvents, recorded, lockVars, remote>>
    /\ UNCHANGED oracleVars

\* ExecuteTransaction with the result of the call before it: the executor is
\* set, so it logs and returns nil.
ExecuteTransaction ==
    /\ ret.op \in {"ComputeRoute", "ExecuteSwap"}
    /\ ret' = [op |-> "ExecuteTransaction", result |-> ret.result, err |-> "nil"]
    /\ UNCHANGED <<pools, positions, transactions, nEvents, recorded, lockVars>>
    /\ UNCHANGED serviceVars

NextRouter ==
    \/ ComputeRoute
    \/ ExecuteSwap
    \/ ExecuteTransaction

SpecRouter == InitRouter /\ [][NextRouter]_vars

\* ------------------------------------------------------- the pool querier
\* IndexerPoolQuerier: GetPoolByID and GetPoolsByAsset over HTTP against the
\* pool-data service, which answers from `remote`.

\* The largest fee of a listed pool, in hundredths of a percent.
MaxFee == 120

RECURSIVE PowerOfTwo(_)
PowerOfTwo(n) == IF n = 0 THEN 1 ELSE 2 * PowerOfTwo(n - 1)

\* 2^n modulo m, without forming 2^n.
RECURSIVE PowerOfTwoMod(_, _)
PowerOfTwoMod(n, m) == IF n = 0 THEN 1 % m ELSE (2 * PowerOfTwoMod(n - 1, m)) % m

\* The float64 that encoding/json decodes the decimal k / 100 (k >= 1) into:
\* the multiple m / 2^scale, 2^52 <= m < 2^53, nearest to k / 100, ties to the
\* even m. It is held by its distance from the decimal: 100 * m = k * 2^scale
\* + excess, so that one hundred times the float64 is k + excess / 2^scale.
Float64OfHundredths(k) ==
    LET s == CHOOSE i \in 0 .. 20 :
                 100 * PowerOfTwo(i) <= 128 * k /\ 128 * k < 100 * PowerOfTwo(i + 1)
        scale == 59 - s
        r == (k * PowerOfTwoMod(scale, 200)) % 200
        low == r % 100
        odd == r >= 100
    IN [scale |-> scale,
        excess |-> IF low < 50 THEN 0 - low
                   ELSE IF low > 50 THEN 100 - low
                   ELSE IF odd THEN 50 ELSE 0 - 50]

\* Whether the float64 product f * 100, f the float64 of k / 100, is below k.
\* The exact product k + excess / 2^scale is rounded to the nearest float64,
\* ties to even; k is a float64 with an even mantissa, and the float64 values
\* just below k are 2^(a - 52) apart (2^(a - 53) when k = 2^a), a = floor(log2 k).
ProductBelow(k) ==
    LET f == Float64OfHundredths(k)
        a == CHOOSE i \in 0 .. 20 : PowerOfTwo(i) <= k /\ k < PowerOfTwo(i + 1)
        half == IF k = PowerOfTwo(a)
                THEN PowerOfTwo(a - 54 + f.scale)
                ELSE PowerOfTwo(a - 53 + f.scale)
    IN f.excess < 0 /\ 0 - f.excess > half

\* uint64(indexerPool.Fee * 100) for the fee k / 100: the float64 product,
\* truncated toward zero.
FeeToBps(k) ==
    IF k = 0 THEN 0
    ELSE IF ProductBelow(k) THEN k - 1 ELSE k

\* The PoolInfoWithReserves built from an IndexerPoolInfo.
ToRouterPool(p) ==
    [ContractId |-> p.ID, Asset0 |-> p.Asset0, Asset1 |-> p.Asset1,
     Reserve0 |-> p.Reserve0, Reserve1 |-> p.Reserve1, Fee |-> FeeToBps(p.Fee)]

\* What may come of an HTTP call: the transport fails (the 5 s timeout of the
\* client included), a 404, a 500, a 200 whose body does not decode, or the
\* answer of the service's handler.
HttpOutcomes == {"error", "404", "500", "garbled", "served"}

\* handleGetPool of the pool-data service: the pool with the id, or a 404.
ServedPool(list, poolID) ==
    LET hits == {i \in DOMAIN list : list[i].ID = poolID}
    IN IF hits = {}
       THEN [failed |-> FALSE, status |-> 404, decodes |-> FALSE, body |-> <<>>]
       ELSE [failed |-> FALSE, status |-> 200, decodes |-> TRUE,
             body |-> <<list[CHOOSE i \in hits : \A j \in hits : i <= j]>>]

\* handleGetPools of the pool-data service: all pools.
ServedPools(list) ==
    [failed |-> FALSE, status |-> 200, decodes |-> TRUE, body |-> list]

\* The response q.httpClient.Get and the JSON decoder see.
Response(outcome, served) ==
    CASE outcome = "error" ->
             [failed |-> TRUE, status |-> 0, decodes |-> FALSE, body |-> <<>>]
      [] outcome = "404" ->
             [failed |-> FALSE, status |-> 404, decodes |-> FALSE, body |-> <<>>]
      [] outcome = "500" ->
             [failed |-> FALSE, status |-> 500, decodes |-> FALSE, body |-> <<>>]
      [] outcome = "garbled" ->
             [failed |-> FALSE, status |-> 200, decodes |-> FALSE, body |-> <<>>]
      [] OTHER -> served

\* GetPoolByID: `pools` holds the snapshot returned, none for a nil pointer.
GetPoolByIDResult(resp) ==
    IF resp.failed THEN [pools |-> <<>>, err |-> "failed to query indexer"]
    ELSE IF resp.status = 404 THEN [pools |-> <<>>, err |-> "pool not found"]
    ELSE IF resp.status # 200 THEN [pools |-> <<>>, err |-> "indexer returned status"]
    ELSE IF ~resp.decodes THEN [pools |-> <<>>, err |-> "failed to decode pool response"]
    ELSE [pools |-> <<ToRouterPool(resp.body[1])>>, err |-> "nil"]

\* A filter that looks at asset0 only.
MatchingPools_Asset0Only(indexerPools, asset) ==
    LET kept == SelectSeq(indexerPools, LAMBDA p : p.Asset0 = asset)
    IN [i \in DOMAIN kept |-> ToRouterPool(kept[i])]

\* The loop of GetPoolsByAsset over the decoded list.
MatchingPools(indexerPools, asset) ==
    LET kept == SelectSeq(indexerPools, LAMBDA p : p.Asset0 = asset \/ p.Asset1 = asset)
    IN [i \in DOMAIN kept |-> ToRouterPool(kept[i])]

\* GetPoolsByAsset without the check of the status code.
GetPoolsByAssetResult_IgnoresStatus(resp, asset) ==
    IF resp.failed THEN [pools |-> <<>>, err |-> "failed to query indexer"]
    ELSE IF resp.status = 200 /\ ~resp.decodes
         THEN [pools |-> <<>>, err |-> "failed to decode pools response"]
    ELSE [pools |-> MatchingPools(resp.body, asset), err |-> "nil"]

\* GetPoolsByAsset
GetPoolsByAssetResult(resp, asset) ==
    IF resp.failed THEN [pools |-> <<>>, err |-> "failed to query indexer"]
    ELSE IF resp.status # 200 THEN [pools |-> <<>>, err |-> "indexer returned status"]
    ELSE IF ~resp.decodes THEN [pools |-> <<>>, err |-> "failed to decode pools response"]
    ELSE [pools |-> MatchingPools(resp.body, asset), err |-> "nil"]

\* The pool lists the service answers from: one pool at every fee up to
\* MaxFee, and the lists of the router.
QuerierPoolLists ==
    {<<RemotePool("pA", "HBD", "HIVE", 1000, 500, k)>> : k \in 0 .. MaxFee}
        \cup RouterPoolLists

QuerierPoolIds == {"pA", "pB", "pZ"}

InitQuerier ==
    /\ pools = <<>>
    /\ positions = <<>>
    /\ transactions = <<>>
    /\ ret = [op |-> "NewIndexerPoolQuerier"]
    /\ nEvents = 0
    /\ recorded = <<>>
    /\ mu = [writer |-> FALSE, readers |-> 0]
    /\ writer = IdleWriter
    /\ readers = [r \in Readers |-> IdleReader]
    /\ executed = <<>>
    /\ remote \in QuerierPoolLists
    /\ nodeHeight = 0
    /\ submitted = <<>>

GetPoolByID ==
    /\ \E poolID \in QuerierPoolIds, outcome \in HttpOutcomes :
           LET resp == Response(outcome, ServedPool(remote, poolID))
               r == GetPoolByIDResult(resp)
           IN ret' = [op |-> "GetPoolByID", arg |-> poolID, response |-> resp,
                      pools |-> r.pools, err |-> r.err]
    /\ UNCHANGED <<pools, positions, transactions, nEvents, recorded, lockVars>>
    /\ UNCHANGED serviceVars

GetPoolsByAsset ==
    /\ \E asset \in Assets, outcome \in HttpOutcomes :
           LET resp == Response(outcome, ServedPools(remote))
               r == GetPoolsByAssetResult(resp, asset)
           IN ret' = [op |-> "GetPoolsByAsset", arg |-> asset, response |-> resp,
                      pools |-> r.pools, err |-> r.err]
    /\ UNCHANGED <<pools, positions, transactions, nEvents, recorded, lockVars>>
    /\ UNCHANGED serviceVars

NextQuerier ==
    \/ GetPoolByID
    \/ GetPoolsByAsset

SpecQuerier == InitQuerier /\ [][NextQuerier]_vars

\* --------------------------------------------------------- the HTTP server
\* Server: the handlers of the indexer's HTTP API over the ledger, which is
\* the DexReadModel among s.indexer.readers.

\* A query parameter of a request: absent (r.URL.Query().Get gives ""), not a
\* number (strconv.Atoi fails), or an integer.
NoParam == [present |-> FALSE, numeric |-> FALSE, value |-> 0]
BadParam == [present |-> TRUE, numeric |-> FALSE, value |-> 0]
IntParam(v) == [present |-> TRUE, numeric |-> TRUE, value |-> v]

DefaultRichListLimit == 50
MaxRichListLimit == 100
DefaultTransactionsLimit == 100
MaxTransactionsLimit == 1000

\* The limit and offset parameters of the requests.
LimitParams == {NoParam, BadParam} \cup {IntParam(v) : v \in {0, 2, 100, 500, 1000, 5000}}
OffsetParams == {NoParam} \cup {IntParam(v) : v \in {-1, 1}}
ServerPoolIds == PoolIds \cup {"p9"}

\* handleGetPoolRichList: offset := 0, replaced by a parsed o >= 0.
RichListOffsetOf(param) ==
    IF param.present /\ param.numeric /\ param.value >= 0 THEN param.value ELSE 0

\* handleGetPoolRichList: limit := 50, replaced by a parsed l with 0 < l <= 100.
RichListLimitOf(param) ==
    IF param.present /\ param.numeric /\ param.value > 0 /\ param.value <= MaxRichListLimit
    THEN param.value
    ELSE DefaultRichListLimit

\* handleGetTransactions: limit := 100, replaced by a parsed l with 0 < l <= 1000.
TransactionsLimitOf(param) ==
    IF param.present /\ param.numeric /\ param.value > 0
           /\ param.value <= MaxTransactionsLimit
    THEN param.value
    ELSE DefaultTransactionsLimit

\* handleGetPools: 200 with the list of QueryPools.
handleGetPools ==
    /\ \E order \in PoolOrders(pools) :
           ret' = [op |-> "handleGetPools", status |-> 200,
                   body |-> QueryPoolsResult(pools, order)]
    /\ UNCHANGED <<pools, positions, transactions, nEvents, recorded, lockVars>>
    /\ UNCHANGED serviceVars

\* handleGetPool: 200 with the pool when GetPool finds it, else 404.
handleGetPool ==
    /\ \E id \in ServerPoolIds :
           LET r == GetPoolResult(pools, id)
           IN ret' = IF r.exists
                     THEN [op |-> "handleGetPool", id |-> id, status |-> 200,
                           body |-> r.pool]
                     ELSE [op |-> "handleGetPool", id |-> id, status |-> 404,
                           body |-> "Pool not found"]
    /\ UNCHANGED <<pools, positions, transactions, nEvents, recorded, lockVars>>
    /\ UNCHANGED serviceVars

\* handleGetPoolAccounts: 200 with what QueryLiquidityPositions returns, which
\* has no error.
handleGetPoolAccounts ==
    /\ \E id \in ServerPoolIds :
           ret' = [op |-> "handleGetPoolAccounts", id |-> id, status |-> 200,
                   body |-> [pool_id |-> id,
                             accounts |-> QueryLiquidityPositionsResult(positions, id)]]
    /\ UNCHANGED <<pools, positions, transactions, nEvents, recorded, lockVars>>
    /\ UNCHANGED serviceVars

\* handleGetPoolRichList: 200 with what QueryRichList returns for the parsed
\* offset and limit, which has no error; the ledger's list is left sorted.
handleGetPoolRichList ==
    /\ \E id \in ServerPoolIds, offsetParam \in OffsetParams, limitParam \in LimitParams :
           LET offset == RichListOffsetOf(offsetParam)
               limit == RichListLimitOf(limitParam)
           IN /\ ret' = [op |-> "handleGetPoolRichList", id |-> id,
                         limitParam |-> limitParam, status |-> 200,
                         body |-> [pool_id |-> id, offset |-> offset, limit |-> limit,
                                   holders |-> QueryRichListResult(positions, id,
                                                                   offset, limit)]]
              /\ positions' = QueryRichListStore(positions, id)
    /\ UNCHANGED <<pools, transactions, nEvents, recorded, lockVars>>
    /\ UNCHANGED serviceVars

\* handleGetTransactions: 200 with what QueryTransactions returns for the
\* parsed limit, which has no error; `limit` is the limit handed to the ledger.
handleGetTransactions ==
    /\ \E poolID \in TxPoolFilters, txType \in TxTypes, limitParam \in LimitParams :
           LET limit == TransactionsLimitOf(limitParam)
               list == QueryTransactionsResult(transactions, poolID, txType, limit)
           IN ret' = [op |-> "handleGetTransactions", limitParam |-> limitParam,
                      limit |-> limit, status |-> 200,
                      body |-> [transactions |-> list, count |-> Len(list)]]
    /\ UNCHANGED <<pools, positions, transactions, nEvents, recorded, lockVars>>
    /\ UNCHANGED serviceVars

\* handleGetTransaction: 200 with the record when GetTransaction finds it,
\* else 404.
handleGetTransaction ==
    /\ \E id \in TxIds :
           LET r == GetTransactionResult(transactions, id)
           IN ret' = IF r.found
                     THEN [op |-> "handleGetTransaction", id |-> id, status |-> 200,
                           body |-> r.tx]
                     ELSE [op |-> "handleGetTransaction", id |-> id, status |-> 404,
                           body |-> "Transaction not found"]
    /\ UNCHANGED <<pools, positions, transactions, nEvents, recorded, lockVars>>
    /\ UNCHANGED serviceVars

NextServer ==
    \/ DeliverEvent
    \/ handleGetPools
    \/ handleGetPool
    \/ handleGetPoolAccounts
    \/ handleGetPoolRichList
    \/ handleGetTransactions
    \/ handleGetTransaction

SpecServer == Init /\ [][NextServer]_vars

\* ------------------------------------------------ concurrent rich lists
\* QueryRichList called from the goroutines of Readers at once, step by step:
\* each holds dm.mu.RLock() and sorts `positions`, which shares its backing
\* array with dm.positions[poolID]. The reads and writes of the elements are
\* not synchronised among the readers; one element is read or written per
\* step (an element is not torn here). HandleEvent runs as a whole, under
\* dm.mu.Lock(), when no reader holds the lock.
SortedPool == "p1"

SorterEvents(n) ==
    {Event(Router, "pool_created", n, TRUE,
           [ZeroArgs EXCEPT !.pool_id = SortedPool, !.asset0 = "HBD",
                            !.asset1 = "HIVE", !.fee = 30])} \cup
    {Event(Router, "liquidity_added", n, TRUE,
           [ZeroArgs EXCEPT !.pool_id = SortedPool, !.user = u, !.amount0 = 1,
                            !.amount1 = 1, !.lp_tokens = 1]) : u \in Holders} \cup
    {Event(Router, "liquidity_added", n, TRUE,
           [ZeroArgs EXCEPT !.pool_id = SortedPool, !.user = "bob", !.amount0 = 2,
                            !.amount1 = 2, !.lp_tokens = 2])}

\* HandleEvent between the queries: Lock() waits until no reader is inside.
SorterDeposit ==
    /\ nEvents < MaxEvents
    /\ CanLock(mu)
    /\ \E ev \in SorterEvents(nEvents + 1) : HandleEvent(ev)

\* The list the readers inside the lock started from: the stored list when
\* the first of them entered.
ListAtEntry ==
    IF \E r \in Readers : readers[r].pc # "idle"
    THEN readers[CHOOSE r \in Readers : readers[r].pc # "idle"].pre
    ELSE IF SortedPool \in DOMAIN positions THEN positions[SortedPool] ELSE <<>>

\* The loop position after the body at (i, j) of a list of n elements:
\* j++, or i++ and j = i + 1, or the end of both loops (i = 0).
AfterBody(i, j, n) ==
    IF j + 1 <= n THEN <<i, j + 1>>
    ELSE IF i + 1 <= n - 1 THEN <<i + 1, i + 2>>
    ELSE <<0, 0>>

\* dm.mu.RLock(), positions, exists := dm.positions[poolID], and the first
\* test of the loops.
SorterLock(r) ==
    /\ readers[r].pc = "idle"
    /\ CanRLock(mu)
    /\ LET exists == SortedPool \in DOMAIN positions
           n == IF exists THEN Len(positions[SortedPool]) ELSE 0
       IN readers' = [readers EXCEPT ![r] =
              [pc |-> IF n >= 2 THEN "compare" ELSE "return",
               query |-> <<"QueryRichList", SortedPool, 0, MaxLimit>>,
               obs |-> <<>>, exists |-> exists, n |-> n,
               i |-> IF n >= 2 THEN 1 ELSE 0, j |-> IF n >= 2 THEN 2 ELSE 0,
               tmp |-> <<>>, pre |-> ListAtEntry]]
    /\ mu' = [mu EXCEPT !.readers = @ + 1]
    /\ UNCHANGED <<ledgerVars, writer>>
    /\ UNCHANGED serviceVars

\* if positions[i].Amount < positions[j].Amount
SorterCompare(r) ==
    /\ readers[r].pc = "compare"
    /\ LET me == readers[r]
           list == positions[SortedPool]
           next == AfterBody(me.i, me.j, me.n)
       IN readers' = [readers EXCEPT ![r] =
              IF list[me.i].Amount < list[me.j].Amount
              THEN [me EXCEPT !.pc = "load"]
              ELSE [me EXCEPT !.pc = IF next[1] = 0 THEN "return" ELSE "compare",
                              !.i = next[1], !.j = next[2]]]
    /\ UNCHANGED <<ledgerVars, mu, writer>>
    /\ UNCHANGED serviceVars

\* The right-hand side of positions[i], positions[j] = positions[j],
\* positions[i]: both elements are read.
SorterLoad(r) ==
    /\ readers[r].pc = "load"
    /\ LET me == readers[r]
           list == positions[SortedPool]
       IN readers' = [readers EXCEPT ![r] =
              [me EXCEPT !.pc = "storeI", !.tmp = <<list[me.j], list[me.i]>>]]
    /\ UNCHANGED <<ledgerVars, mu, writer>>
    /\ UNCHANGED serviceVars

\* The first assignment of the exchange: positions[i] = (old) positions[j].
SorterStoreI(r) ==
    /\ readers[r].pc = "storeI"
    /\ LET me == readers[r]
       IN /\ positions' = [positions EXCEPT ![SortedPool][me.i] = me.tmp[1]]
          /\ readers' = [readers EXCEPT ![r].pc = "storeJ"]
    /\ UNCHANGED <<pools, transactions, ret, nEvents, recorded, mu, writer>>
    /\ UNCHANGED serviceVars

\* The second assignment of the exchange: positions[j] = (old) positions[i],
\* and the step of the loops.
SorterStoreJ(r) ==
    /\ readers[r].pc = "storeJ"
    /\ LET me == readers[r]
           next == AfterBody(me.i, me.j, me.n)
       IN /\ positions' = [positions EXCEPT ![SortedPool][me.j] = me.tmp[2]]
          /\ readers' = [readers EXCEPT ![r] =
                 [me EXCEPT !.pc = IF next[1] = 0 THEN "return" ELSE "compare",
                            !.i = next[1], !.j = next[2], !.tmp = <<>>]]
    /\ UNCHANGED <<pools, transactions, ret, nEvents, recorded, mu, writer>>
    /\ UNCHANGED serviceVars

\* The pagination, the copy into `result`, the deferred RUnlock() and the
\* return.
SorterReturn(r) ==
    /\ readers[r].pc = "return"
    /\ LET me == readers[r]
           list == IF me.exists THEN positions[SortedPool] ELSE <<>>
       IN ret' = [op |-> "QueryRichList", args |-> <<me.query[2], me.query[3], me.query[4]>>,
                  result |-> Paginate(list, me.query[3], me.query[4])]
    /\ mu' = [mu EXCEPT !.readers = @ - 1]
    /\ readers' = [readers EXCEPT ![r] = IdleReader]
    /\ UNCHANGED <<pools, positions, transactions, nEvents, recorded, writer>>
    /\ UNCHANGED serviceVars

SorterLocks == \E r \in Readers : SorterLock(r)
SorterCompares == \E r \in Readers : SorterCompare(r)
SorterLoads == \E r \in Readers : SorterLoad(r)
SorterStoresI == \E r \in Readers : SorterStoreI(r)
SorterStoresJ == \E r \in Readers : SorterStoreJ(r)
SorterReturns == \E r \in Readers : SorterReturn(r)

NextSorters ==
    \/ SorterDeposit
    \/ SorterLocks
    \/ SorterCompares
    \/ SorterLoads
    \/ SorterStoresI
    \/ SorterStoresJ
    \/ SorterReturns

SpecSorters == Init /\ [][NextSorters]_vars

\* ------------------------------------------ the querier over the indexer
\* The pool querier pointed at the indexer's own HTTP server: the pool-data
\* service answers from the ledger.

\* A PoolInfo of the ledger as the JSON body the querier decodes: the fee, a
\* whole number here, arrives as that many hundreds of hundredths.
AsIndexerPool(pool) ==
    RemotePool(pool.ID, pool.Asset0, pool.Asset1, pool.Reserve0, pool.Reserve1,
               100 * pool.Fee)

\* The body of GET /api/v1/pools for one iteration order of dm.pools.
IndexedPools(order) ==
    LET list == QueryPoolsResult(pools, order)
    IN [i \in DOMAIN list |-> AsIndexerPool(list[i])]

IndexedGetPoolByID ==
    /\ \E poolID \in ServerPoolIds, outcome \in HttpOutcomes, order \in PoolOrders(pools) :
           LET resp == Response(outcome, ServedPool(IndexedPools(order), poolID))
               r == GetPoolByIDResult(resp)
           IN ret' = [op |-> "GetPoolByID", arg |-> poolID, response |-> resp,
                      pools |-> r.pools, err |-> r.err]
    /\ UNCHANGED <<pools, positions, transactions, nEvents, recorded, lockVars>>
    /\ UNCHANGED serviceVars

IndexedGetPoolsByAsset ==
    /\ \E asset \in Assets, outcome \in HttpOutcomes, order \in PoolOrders(pools) :
           LET resp == Response(outcome, ServedPools(IndexedPools(order)))
               r == GetPoolsByAssetResult(resp, asset)
           IN ret' = [op |-> "GetPoolsByAsset", arg |-> asset, response |-> resp,
                      pools |-> r.pools, err |-> r.err]
    /\ UNCHANGED <<pools, positions, transactions, nEvents, recorded, lockVars>>
    /\ UNCHANGED serviceVars

NextIndexed ==
    \/ DeliverEvent
    \/ IndexedGetPoolByID
    \/ IndexedGetPoolsByAsset

SpecIndexed == Init /\ [][NextIndexed]_vars

\* ------------------------------------------------------ the oracle service
\* Service of services/oracle: SubmitHeaders and VerifyDepositProof against a
\* Bitcoin node at height nodeHeight. A header is held by its height in the
\* node's chain; a proof by its length.

\* The tip of the mock contract state in getContractTip.
MockTipHeight == 800000
\* The confirmations required of a header and of a deposit.
Confirmations == 6
\* The shortest proof VerifyDepositProof lets through its length check.
MinProofLength == 44
\* The bytes of a block header, sliced from the end of the proof.
HeaderLength == 80

\* The most headers the node is ahead of what may be submitted, and the
\* number of submissions after which no further call is made.
MaxNewHeaders == 3
MaxSubmissions == 2

\* getContractTip
getContractTip == MockTipHeight

\* A last height that asks for no confirmation.
EndHeight_NoConfirmations(latestHeight) == latestHeight

\* endHeight := latestHeight - 6
EndHeight(latestHeight) == latestHeight - Confirmations

\* The loop of fetchHeaders from `height` on; failAt is the height at which
\* GetBlockHash or GetBlockHeader returns an error, 0 when neither does.
RECURSIVE FetchFrom(_, _, _, _)
FetchFrom(height, endHeight, failAt, headers) ==
    IF height > endHeight THEN [headers |-> headers, err |-> "nil"]
    ELSE IF height = failAt THEN [headers |-> <<>>, err |-> "failed to get block"]
    ELSE FetchFrom(height + 1, endHeight, failAt, Append(headers, [Height |-> height]))

\* fetchHeaders
fetchHeaders(startHeight, endHeight, failAt) ==
    FetchFrom(startHeight, endHeight, failAt, <<>>)

\* SubmitHeaders: the error it returns and what it hands to
\* submitHeadersToContract, which serialises the headers and returns nil.
SubmitHeadersResult(countFails, latestHeight, failAt) ==
    IF countFails
    THEN [err |-> "failed to get block count", submissions |-> <<>>]
    ELSE LET startHeight == getContractTip + 1
             endHeight == EndHeight(latestHeight)
             fetched == fetchHeaders(startHeight, endHeight, failAt)
         IN IF startHeight > endHeight
            THEN [err |-> "nil", submissions |-> <<>>]
            ELSE IF fetched.err # "nil"
                 THEN [err |-> "failed to fetch headers", submissions |-> <<>>]
                 ELSE [err |-> "nil",
                       submissions |-> <<[method |-> "submitHeaders",
                                          headers |-> fetched.headers]>>]

\* VerifyDepositProof for a proof of proofLen bytes: lookup is what
\* GetBlockHeader answers for the last 80 bytes, countFails whether
\* GetBlockCount fails, submitFails whether the GraphQL call fails.
\* proof[len(proof)-80:] with len(proof) < 80 has a negative bound and panics.
VerifyDepositProofResult(proofLen, lookup, countFails, latestHeight, submitFails) ==
    IF proofLen < MinProofLength
    THEN [panic |-> FALSE, err |-> "invalid proof length", submissions |-> <<>>]
    ELSE IF proofLen - HeaderLength < 0
    THEN [panic |-> TRUE, err |-> "slice bounds out of range", submissions |-> <<>>]
    ELSE IF ~lookup.found
    THEN [panic |-> FALSE, err |-> "block header not found in Bitcoin network",
          submissions |-> <<>>]
    ELSE IF countFails
    THEN [panic |-> FALSE, err |-> "failed to get tip height", submissions |-> <<>>]
    ELSE IF latestHeight < lookup.Height + Confirmations
    THEN [panic |-> FALSE, err |-> "insufficient confirmations", submissions |-> <<>>]
    ELSE IF submitFails
    THEN [panic |-> FALSE, err |-> "failed to submit deposit proof", submissions |-> <<>>]
    ELSE [panic |-> FALSE, err |-> "nil",
          submissions |-> <<[method |-> "submitTransactionV1",
                             headers |-> <<[Height |-> lookup.Height]>>]>>]

\* The heights the node may be at, the heights a fetch may fail at, the proof
\* lengths and the answers of GetBlockHeader.
NodeHeights == MockTipHeight .. MockTipHeight + Confirmations + MaxNewHeaders
FailHeights == {0} \cup (MockTipHeight + 1 .. MockTipHeight + MaxNewHeaders)
ProofLengths == {0, 43, 44, 79, 80, 123, 124}
HeaderLookups ==
    {[found |-> FALSE, Height |-> 0]} \cup
    {[found |-> TRUE, Height |-> h] :
        h \in {MockTipHeight, MockTipHeight + 1, MockTipHeight + Confirmations}}

InitOracle ==
    /\ pools = <<>>
    /\ positions = <<>>
    /\ transactions = <<>>
    /\ ret = [op |-> "NewService"]
    /\ nEvents = 0
    /\ recorded = <<>>
    /\ mu = [writer |-> FALSE, readers |-> 0]
    /\ writer = IdleWriter
    /\ readers = [r \in Readers |-> IdleReader]
    /\ executed = <<>>
    /\ remote = <<>>
    /\ nodeHeight = MockTipHeight
    /\ submitted = <<>>

\* The node learns of a block.
NewBlock ==
    /\ nodeHeight + 1 \in NodeHeights
    /\ nodeHeight' = nodeHeight + 1
    /\ UNCHANGED <<ledgerVars, lockVars, executed, remote, submitted>>

SubmitHeaders ==
    /\ Len(submitted) < MaxSubmissions
    /\ \E countFails \in BOOLEAN, failAt \in FailHeights :
           LET r == SubmitHeadersResult(countFails, nodeHeight, failAt)
           IN /\ ret' = [op |-> "SubmitHeaders", countFails |-> countFails,
                         failAt |-> failAt, err |-> r.err]
              /\ submitted' = submitted \o r.submissions
    /\ UNCHANGED <<pools, positions, transactions, nEvents, recorded, lockVars>>
    /\ UNCHANGED <<executed, remote, nodeHeight>>

VerifyDepositProof ==
    /\ Len(submitted) < MaxSubmissions
    /\ \E proofLen \in ProofLengths, lookup \in HeaderLookups,
          countFails \in BOOLEAN, submitFails \in BOOLEAN :
           LET r == VerifyDepositProofResult(proofLen, lookup, countFails,
                                             nodeHeight, submitFails)
           IN /\ ret' = [op |-> "VerifyDepositProof", proofLen |-> proofLen,
                         lookup |-> lookup, panic |-> r.panic, err |-> r.err]
              /\ submitted' = submitted \o r.submissions
    /\ UNCHANGED <<pools, positions, transactions, nEvents, recorded, lockVars>>
    /\ UNCHANGED <<executed, remote, nodeHeight>>

NextOracle ==
    \/ NewBlock
    \/ SubmitHeaders
    \/ VerifyDepositProof

SpecOracle == InitOracle /\ [][NextOracle]_vars

\* ------------------------------------------------------------------ claims
RECURSIVE SumAmounts(_)
SumAmounts(list) ==
    IF list = <<>> THEN 0 ELSE list[1].Amount + SumAmounts(Tail(list))

LastTx == transactions[Len(transactions)]

\* C1: every pool's reserve0, reserve1 and totalSupply stay >= 0: no subtraction
\* takes a stored value below zero. A value taken below zero wraps around to the
\* top of the unsigned range, which is a negative number when read as signed.
C1_ReservesNonNegative ==
    \A id \in DOMAIN pools :
        /\ ToInt64(pools[id].Reserve0) >= 0
        /\ ToInt64(pools[id].Reserve1) >= 0
        /\ ToInt64(pools[id].TotalSupply) >= 0

\* C2: for every pool, the amounts of its positions sum to its totalSupply.
C2_SupplyIsSumOfPositions ==
    \A id \in DOMAIN pools :
        SumAmounts(QueryLiquidityPositionsResult(positions, id)) = pools[id].TotalSupply

\* The step is a call of HandleEvent, and ret' holds the event it was given.
IsHandleEvent == nEvents' = nEvents + 1 /\ ret'.op = "HandleEvent"

\* C4: HandleEvent for another contract, or for a method the router has no
\* case for, returns no error and changes neither pools, positions nor history.
C4_IgnoredEventIsNoOp ==
    [][(IsHandleEvent
            /\ (ret'.event.Contract # Router \/ ret'.event.Method \notin DexMethods)) =>
          /\ ~ret'.err
          /\ UNCHANGED <<pools, positions, transactions>>]_vars

\* C5: HandleEvent with an unparseable payload returns an error and changes
\* neither pools, positions nor history, so that any well-formed event that
\* follows has the effect it would have had without the malformed one.
C5_MalformedEventIsIsolated ==
    [][(IsHandleEvent /\ ret'.event.Contract = Router
            /\ ret'.event.Method \in DexMethods /\ ~ret'.event.ArgsOK) =>
          /\ ret'.err
          /\ UNCHANGED <<pools, positions, transactions>>
          /\ \A ev \in PoolCreatedEvents(nEvents + 1) \cup PoolUseEvents(nEvents + 1) :
                 HandleEventResult(pools', positions', transactions', ev)
                     = HandleEventResult(pools, positions, transactions, ev)]_vars

\* C5 witness: a malformed event was delivered to a ledger that holds a pool,
\* a position and a record.
C5_Witness ==
    /\ ret.op = "HandleEvent" /\ ret.err /\ ~ret.event.ArgsOK
    /\ DOMAIN pools # {}
    /\ \E id \in DOMAIN positions : positions[id] # <<>>
    /\ transactions # <<>>

\* The transaction type the specification records for a method.
RecordedType(method) ==
    CASE method = "liquidity_added" -> "deposit"
      [] method = "liquidity_removed" -> "withdrawal"
      [] method = "swap_executed" -> "swap"

\* C8: liquidity_added, liquidity_removed or swap_executed for a pool id that is
\* not in the ledger changes no pool and no position, creates no pool, and
\* appends exactly one record with the parsed pool id, user, type and details.
C8_UnknownPoolOnlyRecords ==
    [][(IsHandleEvent /\ ret'.event \in PoolUseEvents(nEvents + 1)
            /\ ret'.event.Args.pool_id \notin DOMAIN pools) =>
          LET ev == ret'.event IN
          /\ UNCHANGED <<pools, positions>>
          /\ ~ret'.err
          /\ Len(transactions') = Len(transactions) + 1
          /\ SubSeq(transactions', 1, Len(transactions)) = transactions
          /\ LET rec == transactions'[Len(transactions')]
             IN /\ rec.ID = ev.TxID
                /\ rec.PoolID = ev.Args.pool_id
                /\ rec.User = ev.Args.user
                /\ rec.Type = RecordedType(ev.Method)
                /\ DOMAIN rec.Details # {}
                /\ \A k \in DOMAIN rec.Details : rec.Details[k] = ev.Args[k]]_vars

\* C8 witness: the last record is a deposit, withdrawal or swap for a pool id
\* the ledger does not hold, while it holds another pool with a position.
C8_Witness ==
    /\ ret.op = "HandleEvent" /\ ret.event.Method = "swap_executed"
    /\ transactions # <<>>
    /\ LastTx.Type \in {"deposit", "withdrawal", "swap"}
    /\ LastTx.PoolID \notin DOMAIN pools
    /\ \E id \in DOMAIN pools : id \in DOMAIN positions /\ positions[id] # <<>>

\* C9: every position's share is amount / totalSupply x 100 for the pool's
\* current totalSupply (share x totalSupply = amount x 100), and 0 when
\* totalSupply is 0.
C9_SharesUpToDate ==
    \A id \in DOMAIN pools :
        LET list == QueryLiquidityPositionsResult(positions, id)
            total == pools[id].TotalSupply
        IN \A i \in 1 .. Len(list) :
               /\ list[i].Share[1] * total = list[i].Amount * 100 * list[i].Share[2]
               /\ total = 0 => list[i].Share[1] = 0

\* C10: every reported position has amount >= 0 and a share within 0..100.
C10_SharesWithinPercent ==
    \A id \in PoolIds :
        LET list == QueryLiquidityPositionsResult(positions, id)
        IN \A i \in 1 .. Len(list) :
               /\ ToInt64(list[i].Amount) >= 0
               /\ list[i].Share[1] >= 0
               /\ list[i].Share[1] <= 100 * list[i].Share[2]

\* The last k elements of a sequence (all of it when it is shorter).
LastN(s, k) == IF Len(s) <= k THEN s ELSE SubSeq(s, Len(s) - k + 1, Len(s))

\* C3: the history never holds more than 1000 records, and it is the last 1000
\* of the records appended so far, in arrival order.
C3_HistoryIsLastThousand ==
    /\ Len(transactions) <= MaxTransactions
    /\ transactions = LastN(recorded, MaxTransactions)

\* C3 witness: 1001 records have been appended; 1000 remain and the first one
\* appended is the one missing.
C3_Witness ==
    /\ Len(recorded) = MaxTransactions + 1
    /\ Len(transactions) = MaxTransactions
    /\ transactions[1] = recorded[2]
    /\ \A i \in 1 .. Len(transactions) : transactions[i] # recorded[1]

QueryOps ==
    {"QueryPools", "GetPool", "QueryLiquidityPositions", "QueryRichList",
     "QueryTransactions", "GetTransaction"}

\* C7: no query changes the ledger: pools, the stored positions of every pool
\* (their stored order included) and the history are the same after the call.
C7_QueriesDoNotMutate ==
    [][(nEvents' = nEvents /\ ret'.op \in QueryOps) =>
          UNCHANGED <<pools, positions, transactions>>]_vars

\* The complete ledger before and after the event in progress: both are the
\* present ledger when no HandleEvent is in progress.
LedgerBefore == IF writer.pc = "idle" THEN Ledger ELSE writer.pre

LedgerAfter ==
    IF writer.pc = "idle" THEN Ledger
    ELSE LET r == HandleEventResult(writer.pre.pools, writer.pre.positions,
                                    writer.pre.transactions, writer.ev)
         IN [pools |-> r.pools, positions |-> r.positions, transactions |-> r.transactions]

\* C6: event applications are atomic with respect to the read-only queries:
\* whatever a query reads is what it would read from the complete ledger before
\* the event in progress or from the complete ledger after it; and HandleEvent
\* releases the lock on exactly the ledger the whole event yields.
C6_QueriesSeeWholeEvents ==
    [][/\ \A r \in Readers :
              (readers[r].pc = "read" /\ readers'[r].pc = "unlock") =>
                  \/ readers'[r].obs = QueryResult(readers[r].query, LedgerBefore)
                  \/ readers'[r].obs = QueryResult(readers[r].query, LedgerAfter)
       /\ (writer.pc = "unlock" /\ writer'.pc = "idle") =>
              /\ Ledger = LedgerAfter
              /\ ret'.err = HandleEventResult(writer.pre.pools, writer.pre.positions,
                                              writer.pre.transactions, writer.ev).err]_vars

\* C6 witness: a query holds its read lock with what it has read while
\* HandleEvent, having delivered an event before, waits with a further event
\* to deliver and the other reader holds a read lock too.
C6_Witness ==
    /\ mu.readers = 2 /\ ~mu.writer
    /\ nEvents >= 2
    /\ \E id \in DOMAIN positions : Len(positions[id]) >= 1
    /\ \E r \in Readers :
           /\ readers[r].pc = "unlock"
           /\ readers[r].query[1] = "QueryLiquidityPositions"
           /\ readers[r].obs # <<>>

\* The orders of the elements of a list: the bijections on its indices.
IndexOrders(n) ==
    {f \in [1 .. n -> 1 .. n] : \A i, j \in 1 .. n : i # j => f[i] # f[j]}

\* The smaller of two numbers.
Min(a, b) == IF a < b THEN a ELSE b

\* C11: QueryRichList(poolId, offset, limit) returns the pool's positions in an
\* order of non-increasing amount, cut to the indices [offset, min(offset+limit,
\* n)): nothing when offset >= n or the pool has no positions, and never more
\* than limit entries.
C11_RichListSortedAndSliced ==
    [][(nEvents' = nEvents /\ ret'.op = "QueryRichList") =>
          LET list == QueryLiquidityPositionsResult(positions, ret'.args[1])
              offset == ret'.args[2]
              limit == ret'.args[3]
              n == Len(list)
              res == ret'.result
          IN /\ Len(res) <= limit
             /\ (offset >= n \/ n = 0) => res = <<>>
             /\ \E f \in IndexOrders(n) :
                    LET sorted == [i \in 1 .. n |-> list[f[i]]]
                    IN /\ \A i \in 1 .. n - 1 : sorted[i].Amount >= sorted[i + 1].Amount
                       /\ res = SubSeq(sorted, offset + 1, Min(offset + limit, n))]_vars

\* C11 witness: a pool holds three positions that arrived in increasing amount,
\* and the rich list read at offset 1 with limit 2 has two entries.
C11_Witness ==
    /\ ret.op = "QueryRichList" /\ ret.args = <<"p1", 1, 2>>
    /\ Len(QueryLiquidityPositionsResult(positions, "p1")) = 3
    /\ Len(ret.result) = 2
    /\ ret.result[1].Amount > ret.result[2].Amount
    /\ \E i, j \in 1 .. Len(transactions) :
           /\ i < j
           /\ transactions[i].Type = "deposit" /\ transactions[j].Type = "deposit"
           /\ transactions[i].Details.lp_tokens < transactions[j].Details.lp_tokens
           /\ transactions[i].User # transactions[j].User

\* The byte order of the user identifiers.
UserRank(user) ==
    CASE user = "" -> 0
      [] user = "alice" -> 1
      [] user = "bob" -> 2
      [] user = "carol" -> 3

\* C12: the rich list of a ledger state is the same whatever the order in which
\* the deposits arrived: positions of equal amount come in ascending order of
\* the user identifier (and a repeated call returns the same list).
C12_RichListTiesByUser ==
    [][(nEvents' = nEvents /\ ret'.op = "QueryRichList") =>
          /\ \A i \in 1 .. Len(ret'.result) - 1 :
                 ret'.result[i].Amount = ret'.result[i + 1].Amount =>
                     UserRank(ret'.result[i].User) < UserRank(ret'.result[i + 1].User)
          /\ (ret.op = "QueryRichList" /\ ret.args = ret'.args) =>
                 ret'.result = ret.result]_vars

\* A sequence back to front.
Reverse(s) == [i \in 1 .. Len(s) |-> s[Len(s) - i + 1]]

\* The retained records that match both filters, most recent first; an empty
\* filter matches every record.
MatchingRecords(Tx, poolID, txType) ==
    LET Matches(tx) == /\ (poolID = "" \/ tx.PoolID = poolID)
                       /\ (txType = "" \/ tx.Type = txType)
    IN SelectSeq(Reverse(Tx), Matches)

\* C13: QueryTransactions(poolId, type, limit) returns at most limit records
\* for every limit >= 0, none for limit = 0: the first limit of the retained
\* records that match both filters, most recent first, none of them skipped.
C13_TransactionsUpToLimit ==
    [][(nEvents' = nEvents /\ ret'.op = "QueryTransactions") =>
          LET matching == MatchingRecords(transactions, ret'.args[1], ret'.args[2])
              limit == ret'.args[3]
          IN /\ Len(ret'.result) <= limit
             /\ ret'.result = SubSeq(matching, 1, Min(limit, Len(matching)))]_vars

\* C14: two calls of QueryPools with no HandleEvent between them return
\* identical results, and GetPool(id) agrees with QueryPools: it reports found,
\* with the same values, iff a pool with that id is in the QueryPools result.
C14_QueryPoolsRepeatable ==
    [][/\ (ret.op = "QueryPools" /\ ret'.op = "QueryPools") => ret'.result = ret.result
       /\ (ret.op = "QueryPools" /\ ret'.op = "GetPool") =>
              LET hits == {i \in 1 .. Len(ret.result) : ret.result[i].ID = ret'.args[1]}
              IN /\ ret'.result.exists <=> hits # {}
                 /\ \A i \in hits : ret.result[i] = ret'.result.pool]_vars

\* C15: GetTransaction(id) reports found iff a record with that id is among the
\* retained records, the last 1000 appended, and then returns that record as
\* it was appended; for an id never recorded, or whose record has been evicted,
\* it returns the not-found indicator with the zero record.
C15_GetTransactionFindsRetained ==
    ret.op = "GetTransaction" =>
        LET kept == LastN(recorded, MaxTransactions)
            hits == {i \in 1 .. Len(kept) : kept[i].ID = ret.args[1]}
        IN /\ ret.result.found <=> hits # {}
           /\ ret.result.found => \E i \in hits : ret.result.tx = kept[i]
           /\ ~ret.result.found => ret.result.tx = ZeroTx

\* C15 witness: GetTransaction reports not found for the id of a record that
\* was appended and has since been evicted.
C15_Witness ==
    /\ ret.op = "GetTransaction"
    /\ ~ret.result.found
    /\ Len(recorded) > MaxTransactions
    /\ \E i \in 1 .. Len(recorded) - MaxTransactions : recorded[i].ID = ret.args[1]

\* C16: pool_created stores a pool with the event's id, asset0, asset1 and fee
\* and with reserve0 = reserve1 = totalSupply = 0, and records one pool_created
\* transaction with no user; when the id is already in the ledger the pool is
\* either left untouched or overwritten, and in both cases its totalSupply is
\* afterwards the sum of the amounts of its positions.
C16_PoolCreatedKeepsSupply ==
    [][(IsHandleEvent /\ ret'.event \in PoolCreatedEvents(nEvents + 1)) =>
          LET a == ret'.event.Args
              id == a.pool_id
              rec == transactions'[Len(transactions')]
          IN /\ id \in DOMAIN pools'
             /\ \/ pools'[id] = [ID |-> id, Asset0 |-> a.asset0, Asset1 |-> a.asset1,
                                 Fee |-> a.fee, Reserve0 |-> 0, Reserve1 |-> 0,
                                 TotalSupply |-> 0]
                \/ id \in DOMAIN pools /\ pools'[id] = pools[id]
             /\ Len(transactions') = Len(transactions) + 1
             /\ rec.Type = "pool_created" /\ rec.PoolID = id /\ rec.User = ""
             /\ pools'[id].TotalSupply
                    = SumAmounts(QueryLiquidityPositionsResult(positions', id))]_vars

\* The LP amount the positions of a pool hold for a user: 0 without a position.
HeldBy(Pos, poolID, user) ==
    LET OfUser(pos) == pos.User = user
    IN SumAmounts(SelectSeq(QueryLiquidityPositionsResult(Pos, poolID), OfUser))

\* Whether the pool has a position of the user.
HasPosition(Pos, poolID, user) ==
    LET list == QueryLiquidityPositionsResult(Pos, poolID)
    IN \E i \in 1 .. Len(list) : list[i].User = user

\* The LP amount the specification credits for a deposit.
SpecCredited(a) == IF a.lp_tokens > 0 THEN a.lp_tokens ELSE a.amount0

\* What C17 says of the pool and of the history: reserve0, reserve1 and
\* totalSupply grow by amount0, amount1 and the credited LP amount (in the
\* unsigned arithmetic of the ledger), and one deposit record is appended.
DepositUpdatesPool ==
    LET a == ret'.event.Args
        id == a.pool_id
        rec == transactions'[Len(transactions')]
    IN /\ pools'[id].Reserve0 = (pools[id].Reserve0 + a.amount0) % Modulus
       /\ pools'[id].Reserve1 = (pools[id].Reserve1 + a.amount1) % Modulus
       /\ pools'[id].TotalSupply = (pools[id].TotalSupply + SpecCredited(a)) % Modulus
       /\ Len(transactions') = Len(transactions) + 1
       /\ rec.Type = "deposit" /\ rec.PoolID = id /\ rec.User = a.user

\* The step is a well-formed liquidity_added for a pool the ledger holds.
IsDeposit ==
    /\ IsHandleEvent
    /\ ret'.event \in LiquidityAddedEvents(nEvents + 1)
    /\ ret'.event.Args.pool_id \in DOMAIN pools

\* C17 as stated: liquidity_added on an existing pool increases reserve0 by
\* amount0, reserve1 by amount1 and totalSupply by the credited LP amount
\* (lpTokens if lpTokens > 0, amount0 otherwise); if a user is present, that
\* user has a position afterwards, created if absent, and it has grown by the
\* credited amount; one deposit record is appended.
C17_DepositCreatesPosition ==
    [][IsDeposit =>
          LET a == ret'.event.Args IN
          /\ DepositUpdatesPool
          /\ a.user # "" =>
                 /\ HasPosition(positions', a.pool_id, a.user)
                 /\ HeldBy(positions', a.pool_id, a.user)
                        = (HeldBy(positions, a.pool_id, a.user) + SpecCredited(a)) % Modulus]_vars

\* C17 amended: as above, but a user without a position gets one only when the
\* credited amount is positive; a deposit that credits nothing (lpTokens = 0
\* and amount0 = 0) leaves a user without a position without one.
C17_DepositCredits ==
    [][IsDeposit =>
          LET a == ret'.event.Args IN
          /\ DepositUpdatesPool
          /\ a.user # "" =>
                 /\ HasPosition(positions', a.pool_id, a.user)
                        <=> (HasPosition(positions, a.pool_id, a.user) \/ SpecCredited(a) > 0)
                 /\ HeldBy(positions', a.pool_id, a.user)
                        = (HeldBy(positions, a.pool_id, a.user) + SpecCredited(a)) % Modulus]_vars

\* C17 witness: a deposit without lp_tokens has credited its amount0 to a
\* position that was there before.
C17_Witness ==
    /\ ret.op = "HandleEvent" /\ ret.event.Method = "liquidity_added" /\ ~ret.err
    /\ ret.event.Args.lp_tokens = 0 /\ ret.event.Args.amount0 > 0
    /\ ret.event.Args.user = "alice"
    /\ ret.event.Args.pool_id \in DOMAIN pools
    /\ HeldBy(positions, ret.event.Args.pool_id, "alice") > ret.event.Args.amount0

\* The step is a well-formed liquidity_removed for a pool the ledger holds.
IsWithdrawal ==
    /\ IsHandleEvent
    /\ ret'.event \in LiquidityRemovedEvents(nEvents + 1)
    /\ ret'.event.Args.pool_id \in DOMAIN pools

\* C18: liquidity_removed on an existing pool decreases reserve0 by amount0,
\* reserve1 by amount1 and totalSupply by lpTokens (in the unsigned arithmetic
\* of the ledger), sets the named user's amount to max(0, old - lpTokens),
\* leaves the amount of every other user as it was, creates no position, and
\* appends one withdrawal record.
C18_WithdrawalDebits ==
    [][IsWithdrawal =>
          LET a == ret'.event.Args
              id == a.pool_id
              old == QueryLiquidityPositionsResult(positions, id)
              new == QueryLiquidityPositionsResult(positions', id)
              held == HeldBy(positions, id, a.user)
              rec == transactions'[Len(transactions')]
          IN /\ pools'[id].Reserve0 = (pools[id].Reserve0 - a.amount0) % Modulus
             /\ pools'[id].Reserve1 = (pools[id].Reserve1 - a.amount1) % Modulus
             /\ pools'[id].TotalSupply = (pools[id].TotalSupply - a.lp_tokens) % Modulus
             /\ HeldBy(positions', id, a.user)
                    = IF held - a.lp_tokens > 0 THEN held - a.lp_tokens ELSE 0
             /\ Len(new) = Len(old)
             /\ \A i \in 1 .. Len(old) :
                    /\ new[i].User = old[i].User
                    /\ old[i].User # a.user => new[i].Amount = old[i].Amount
             /\ Len(transactions') = Len(transactions) + 1
             /\ rec.Type = "withdrawal" /\ rec.PoolID = id /\ rec.User = a.user]_vars

\* C18 witness: a user who held one LP token has withdrawn two and is left
\* with a position of amount 0.
C18_Witness ==
    /\ ret.op = "HandleEvent" /\ ret.event.Method = "liquidity_removed" /\ ~ret.err
    /\ ret.event.Args.lp_tokens = 2
    /\ ret.event.Args.pool_id \in DOMAIN pools
    /\ HasPosition(positions, ret.event.Args.pool_id, ret.event.Args.user)
    /\ HeldBy(positions, ret.event.Args.pool_id, ret.event.Args.user) = 0
    /\ Len(transactions) >= 2
    /\ LET dep == transactions[Len(transactions) - 1]
       IN /\ dep.Type = "deposit" /\ dep.User = ret.event.Args.user
          /\ dep.PoolID = ret.event.Args.pool_id
          /\ dep.Details.lp_tokens = 0 /\ dep.Details.amount0 = 1

\* The step is a well-formed swap_executed in the directional encoding for a
\* pool the ledger holds.
IsDirectionalSwap ==
    /\ IsHandleEvent
    /\ ret'.event \in DirectionalSwapEvents(nEvents + 1)
    /\ ret'.event.Args.amount0 = 0 /\ ret'.event.Args.amount1 = 0
    /\ ret'.event.Args.pool_id \in DOMAIN pools

\* C19: a swap_executed in the directional encoding on an existing pool adds
\* amountIn to the reserve of the asset named by assetIn and takes amountOut
\* from the other reserve (in the unsigned arithmetic of the ledger): reserve0
\* and reserve1 in this order when assetIn = asset0, reserve1 and reserve0
\* when assetIn = asset1; one swap record is appended.
C19_DirectionalSwapMovesReserves ==
    [][IsDirectionalSwap =>
          LET a == ret'.event.Args
              old == pools[a.pool_id]
              new == pools'[a.pool_id]
              rec == transactions'[Len(transactions')]
          IN /\ a.asset_in = old.Asset0 =>
                    /\ new.Reserve0 = (old.Reserve0 + a.amount_in) % Modulus
                    /\ new.Reserve1 = (old.Reserve1 - a.amount_out) % Modulus
             /\ a.asset_in = old.Asset1 =>
                    /\ new.Reserve1 = (old.Reserve1 + a.amount_in) % Modulus
                    /\ new.Reserve0 = (old.Reserve0 - a.amount_out) % Modulus
             /\ Len(transactions') = Len(transactions) + 1
             /\ rec.Type = "swap" /\ rec.PoolID = a.pool_id /\ rec.User = a.user]_vars

\* C19 witness: a directional swap whose assetIn is the pool's asset1 has been
\* applied to a pool that held amountOut of asset0 or more.
C19_Witness ==
    /\ ret.op = "HandleEvent" /\ ret.event.Method = "swap_executed" /\ ~ret.err
    /\ ret.event.Args.amount0 = 0 /\ ret.event.Args.amount1 = 0
    /\ ret.event.Args.amount_in > 0 /\ ret.event.Args.amount_out > 0
    /\ ret.event.Args.pool_id \in DOMAIN pools
    /\ LET pool == pools[ret.event.Args.pool_id]
       IN /\ ret.event.Args.asset_in = pool.Asset1
          /\ pool.Asset0 # pool.Asset1
          /\ pool.Reserve1 > ret.event.Args.amount_in
          /\ pool.Reserve0 + ret.event.Args.amount_out < Modulus \div 2

\* The step is a well-formed swap_executed with signed reserve deltas for a
\* pool the ledger holds.
IsLegacySwap ==
    /\ IsHandleEvent
    /\ ret'.event \in LegacySwapEvents(nEvents + 1)
    /\ (ret'.event.Args.amount0 # 0 \/ ret'.event.Args.amount1 # 0)
    /\ ret'.event.Args.pool_id \in DOMAIN pools

\* A reserve after a delta, with a result below zero stored as 0.
Clamped(reserve, delta) == IF reserve + delta < 0 THEN 0 ELSE reserve + delta

\* The positive part of a delta.
PositivePart(delta) == IF delta > 0 THEN delta ELSE 0

\* C20: a legacy swap_executed whose delta would take a reserve below zero is
\* either rejected (both reserves keep their values) or clamped (that reserve
\* becomes 0); and no legacy swap leaves a reserve larger than the previous
\* reserve plus the positive part of its delta.
C20_LegacySwapNeverBelowZero ==
    [][IsLegacySwap =>
          LET a == ret'.event.Args
              old == pools[a.pool_id]
              new == pools'[a.pool_id]
          IN /\ (old.Reserve0 + a.amount0 < 0 \/ old.Reserve1 + a.amount1 < 0) =>
                    \/ new.Reserve0 = old.Reserve0 /\ new.Reserve1 = old.Reserve1
                    \/ /\ new.Reserve0 = Clamped(old.Reserve0, a.amount0)
                       /\ new.Reserve1 = Clamped(old.Reserve1, a.amount1)
             /\ new.Reserve0 <= old.Reserve0 + PositivePart(a.amount0)
             /\ new.Reserve1 <= old.Reserve1 + PositivePart(a.amount1)]_vars

\* C21: ComputeRoute with assetIn = assetOut fails with the InvalidRoute
\* reason, for every asset and amount: it returns no amountOut and no route,
\* calls the executor not at all and asks for no pool.
C21_SameAssetIsInvalidRoute ==
    [][(ret'.op = "ComputeRoute" /\ ret'.params.AssetIn = ret'.params.AssetOut) =>
          /\ ~ret'.result.Success
          /\ ret'.result.ErrorMessage = "cannot swap asset to itself"
          /\ ret'.result.AmountOut = 0
          /\ ret'.result.Route = <<>>
          /\ ret'.err = "nil"
          /\ UNCHANGED <<executed, remote>>]_vars

\* C21 witness: a request to swap an asset for itself was refused after
\* another request had gone to the executor.
C21_Witness ==
    /\ ret.op = "ComputeRoute"
    /\ ret.params.AssetIn = ret.params.AssetOut
    /\ ~ret.result.Success
    /\ Len(executed) = 1
    /\ remote # <<>>

\* The pools of a list that hold both assets with both reserves non-zero.
DirectPools(list, assetA, assetB) ==
    {i \in DOMAIN list :
        /\ {list[i].Asset0, list[i].Asset1} = {assetA, assetB}
        /\ list[i].Reserve0 > 0 /\ list[i].Reserve1 > 0}

\* The constant-product quote of one hop, the fee (in basis points) taken from
\* the input, both divisions truncating.
QuoteHop(pool, assetIn, amountIn) ==
    LET reserveIn == IF assetIn = pool.Asset0 THEN pool.Reserve0 ELSE pool.Reserve1
        reserveOut == IF assetIn = pool.Asset0 THEN pool.Reserve1 ELSE pool.Reserve0
        amountInAfterFee == (amountIn * (10000 - pool.Fee)) \div 10000
    IN (reserveOut * amountInAfterFee) \div (reserveIn + amountInAfterFee)

\* C22: for a single-hop route over a pool with non-zero reserves the amountOut
\* ComputeRoute returns is reserveOut * amountInAfterFee / (reserveIn +
\* amountInAfterFee) with amountInAfterFee = amountIn * (10000 - feeBps) / 10000,
\* whatever MinAmountOut the caller gave; for the pool (HBD, HIVE) of the
\* specification's example, here at a thousandth of its amounts (reserves 1000
\* and 500, fee 8 bps, 10 HBD in), it is above 0 and below the spot output 5.
C22_SingleHopQuote ==
    (ret.op = "ComputeRoute" /\ ret.result.Success) =>
        LET p == ret.params IN
        /\ \A i \in DirectPools(remote, p.AssetIn, p.AssetOut) :
               ret.result.AmountOut = QuoteHop(remote[i], p.AssetIn, p.AmountIn)
        /\ (/\ p.AssetIn = "HBD" /\ p.AssetOut = "HIVE" /\ p.AmountIn = 10
            /\ \E i \in DOMAIN remote :
                   remote[i] = RemotePool("pA", "HBD", "HIVE", 1000, 500, 8)) =>
               (0 < ret.result.AmountOut /\ ret.result.AmountOut < 5)

\* The bridge asset of the two-hop routes.
BridgeAsset == "HBD"

\* The pairs <<i, j>> of pools of a list that chain assetA - bridge - assetB,
\* all four reserves non-zero.
TwoHopPools(list, assetA, assetB) ==
    IF assetA = BridgeAsset \/ assetB = BridgeAsset
    THEN {}
    ELSE DirectPools(list, assetA, BridgeAsset) \X DirectPools(list, BridgeAsset, assetB)

\* A route of one hop over the pool: the label of the code, the pool's id or
\* the pair of assets.
IsSingleHop(route, pool, assetIn, assetOut) ==
    route \in {<<"direct">>, <<pool.ID>>, <<assetIn, assetOut>>}

\* A route of two hops over the two pools: their ids or the three assets.
IsTwoHop(route, first, second, assetIn, assetOut) ==
    route \in {<<first.ID, second.ID>>, <<assetIn, BridgeAsset, assetOut>>}

\* A result that carries no quote.
NoQuote(result) == ~result.Success /\ result.AmountOut = 0 /\ result.Route = <<>>

\* C23: ComputeRoute tries the routes in a fixed order: with a pool of both
\* assets and non-zero reserves the quote is single-hop over that pool, also
\* when a two-hop path exists; only without one is the path through the bridge
\* asset taken; with neither the call fails (NoRouteFound) and returns no quote.
C23_RouteOrder ==
    (ret.op = "ComputeRoute" /\ ret.params.AssetIn # ret.params.AssetOut) =>
        LET p == ret.params
            direct == DirectPools(remote, p.AssetIn, p.AssetOut)
            twoHop == TwoHopPools(remote, p.AssetIn, p.AssetOut)
        IN /\ (direct # {} /\ ret.result.Success) =>
                  \E i \in direct :
                      IsSingleHop(ret.result.Route, remote[i], p.AssetIn, p.AssetOut)
           /\ (direct = {} /\ twoHop # {} /\ ret.result.Success) =>
                  \E ij \in twoHop :
                      IsTwoHop(ret.result.Route, remote[ij[1]], remote[ij[2]],
                               p.AssetIn, p.AssetOut)
           /\ (direct = {} /\ twoHop = {}) => NoQuote(ret.result)

\* Whether a list holds a pool of the two assets, whatever its reserves.
HasPool(list, assetA, assetB) ==
    \E i \in DOMAIN list : {list[i].Asset0, list[i].Asset1} = {assetA, assetB}

\* C24: with no pool of assetIn and assetOut but pools (assetIn, bridge) and
\* (bridge, assetOut), ComputeRoute succeeds via two hops only if all their
\* reserves are non-zero, and fails (NoRouteFound, no quote) as soon as either
\* leg has a zero reserve; the amountOut of the two-hop quote is the quote of
\* hop two for the truncated integer output of hop one.
C24_TwoHopQuote ==
    (/\ ret.op = "ComputeRoute"
     /\ ret.params.AssetIn # ret.params.AssetOut
     /\ ~HasPool(remote, ret.params.AssetIn, ret.params.AssetOut)
     /\ HasPool(remote, ret.params.AssetIn, BridgeAsset)
     /\ HasPool(remote, BridgeAsset, ret.params.AssetOut)) =>
        LET p == ret.params
            twoHop == TwoHopPools(remote, p.AssetIn, p.AssetOut)
        IN /\ twoHop = {} => NoQuote(ret.result)
           /\ (twoHop # {} /\ ret.result.Success) =>
                  \E ij \in twoHop :
                      /\ IsTwoHop(ret.result.Route, remote[ij[1]], remote[ij[2]],
                                  p.AssetIn, p.AssetOut)
                      /\ ret.result.AmountOut
                             = QuoteHop(remote[ij[2]], BridgeAsset,
                                        QuoteHop(remote[ij[1]], p.AssetIn, p.AmountIn))

\* Whether the price impact of a quote over a pool is above a bound in basis
\* points: the execution price amountOut / amountIn falls short of the spot
\* price reserveOut / reserveIn by more than bound / 10000 of the spot price.
ImpactExceeds(pool, assetIn, amountIn, amountOut, boundBps) ==
    LET reserveIn == IF assetIn = pool.Asset0 THEN pool.Reserve0 ELSE pool.Reserve1
        reserveOut == IF assetIn = pool.Asset0 THEN pool.Reserve1 ELSE pool.Reserve0
    IN (amountIn * reserveOut - amountOut * reserveIn) * 10000
           > boundBps * amountIn * reserveOut

\* C25: when MaxSlippage > 0 is given and the quote computed for the route has
\* a price impact above it, ComputeRoute fails (SlippageExceeded): it returns
\* no quote and submits nothing; and no successful result carries an amountOut
\* whose impact is above the caller's bound.
C25_SlippageBound ==
    [][(/\ ret'.op = "ComputeRoute"
        /\ ret'.params.AssetIn # ret'.params.AssetOut
        /\ ret'.params.MaxSlippage > 0) =>
          LET p == ret'.params IN
          \A i \in DirectPools(remote, p.AssetIn, p.AssetOut) :
              /\ ImpactExceeds(remote[i], p.AssetIn, p.AmountIn,
                               QuoteHop(remote[i], p.AssetIn, p.AmountIn),
                               p.MaxSlippage) =>
                     (NoQuote(ret'.result) /\ executed' = executed)
              /\ ret'.result.Success =>
                     ~ImpactExceeds(remote[i], p.AssetIn, p.AmountIn,
                                    ret'.result.AmountOut, p.MaxSlippage)]_vars

\* C26: the querier converts a fee given as a decimal percent into basis
\* points exactly: every snapshot returned by GetPoolByID or GetPoolsByAsset
\* has Fee = f x 100 for the fee f of the listed pool (here f = k / 100, so
\* Fee = k), never one basis point low.
C26_FeeConversionExact ==
    (ret.op \in {"GetPoolByID", "GetPoolsByAsset"} /\ ret.err = "nil") =>
        \A i \in DOMAIN ret.pools :
            \E j \in DOMAIN remote :
                /\ remote[j].ID = ret.pools[i].ContractId
                /\ ret.pools[i].Fee = remote[j].Fee

\* The call to the pool-data service failed, timed out, answered with a status
\* other than 200, or answered with a body that does not decode.
ResponseFails(resp) == resp.failed \/ resp.status # 200 \/ ~resp.decodes

\* C27: when the call to the pool-data service fails, the querier returns an
\* error and no pool data (no snapshot from GetPoolByID, no partial list from
\* GetPoolsByAsset), and a 404 answered to GetPoolByID is reported as "pool
\* not found".
C27_FailureReturnsNoData ==
    ret.op \in {"GetPoolByID", "GetPoolsByAsset"} =>
        /\ ResponseFails(ret.response) => (ret.err # "nil" /\ ret.pools = <<>>)
        /\ (ret.op = "GetPoolByID" /\ ~ret.response.failed /\ ret.response.status = 404)
               => ret.err = "pool not found"

ContainsAsset(p, asset) == p.Asset0 = asset \/ p.Asset1 = asset

C27_Witness ==
    /\ ret.op = "GetPoolsByAsset"
    /\ ret.response.status = 500
    /\ \E j \in DOMAIN remote : ContainsAsset(remote[j], ret.arg)
    /\ ret.err = "indexer returned status"
    /\ ret.pools = <<>>

SameSnapshot(r, p) ==
    /\ r.ContractId = p.ID
    /\ r.Asset0 = p.Asset0
    /\ r.Asset1 = p.Asset1
    /\ r.Reserve0 = p.Reserve0
    /\ r.Reserve1 = p.Reserve1

\* C28: GetPoolsByAsset(asset) returns exactly the listed pools whose asset0
\* or asset1 is the asset: each returned pool contains the asset, none that
\* contains it is left out, and id, assets and reserves are those of the
\* listed pool.
C28_PoolsByAssetExact ==
    (ret.op = "GetPoolsByAsset" /\ ret.err = "nil") =>
        /\ \A i \in DOMAIN ret.pools :
               /\ ContainsAsset(ret.pools[i], ret.arg)
               /\ \E j \in DOMAIN remote : SameSnapshot(ret.pools[i], remote[j])
        /\ \A j \in DOMAIN remote :
               ContainsAsset(remote[j], ret.arg) =>
                   \E i \in DOMAIN ret.pools : SameSnapshot(ret.pools[i], remote[j])
        /\ Len(ret.pools) =
               Cardinality({j \in DOMAIN remote : ContainsAsset(remote[j], ret.arg)})

C28_Witness ==
    /\ ret.op = "GetPoolsByAsset"
    /\ ret.err = "nil"
    /\ Len(ret.pools) >= 1
    /\ Len(ret.pools) < Len(remote)
    /\ \E i \in DOMAIN ret.pools : ret.pools[i].Asset1 = ret.arg

\* C29: the HTTP transport clamps limits to a ceiling: the rich-list endpoint
\* uses 50 when no limit is given and min(requested, 100) for a requested
\* limit > 0; the transactions endpoint uses 100 when none is given and
\* min(requested, 1000) for a requested limit > 0.
C29_LimitsClamped ==
    /\ ret.op = "handleGetPoolRichList" =>
           /\ ~ret.limitParam.present => ret.body.limit = 50
           /\ (ret.limitParam.numeric /\ ret.limitParam.value > 0) =>
                  ret.body.limit = Min(ret.limitParam.value, 100)
    /\ ret.op = "handleGetTransactions" =>
           /\ ~ret.limitParam.present => ret.limit = 100
           /\ (ret.limitParam.numeric /\ ret.limitParam.value > 0) =>
                  ret.limit = Min(ret.limitParam.value, 1000)

\* C30: every endpoint that names a pool or a transaction answers 404 when it
\* does not exist, and 200 only when it does: /pools/{id}, /pools/{id}/accounts
\* and /pools/{id}/richlist for a pool id, /transactions/{id} for a
\* transaction id.
C30_UnknownEntityIs404 ==
    /\ ret.op \in {"handleGetPool", "handleGetPoolAccounts", "handleGetPoolRichList"} =>
           /\ ret.id \notin DOMAIN pools => ret.status = 404
           /\ ret.status = 200 => ret.id \in DOMAIN pools
    /\ ret.op = "handleGetTransaction" =>
           /\ (\A i \in DOMAIN transactions : transactions[i].ID # ret.id)
                  => ret.status = 404
           /\ ret.status = 200 =>
                  \E i \in DOMAIN transactions : transactions[i].ID = ret.id

\* C31: a (user, poolId) pair identifies at most one position: no pool's
\* position list holds two entries of the same user, and every position's
\* poolId is the id of a pool of the ledger (the one whose list it is in).
C31_PositionsUnique ==
    \A id \in DOMAIN positions :
        /\ id \in DOMAIN pools
        /\ \A i, j \in DOMAIN positions[id] :
               positions[id][i].User = positions[id][j].User => i = j
        /\ \A i \in DOMAIN positions[id] : positions[id][i].PoolID = id

\* A second deposit of a user who already held the only position of the pool.
C31_Witness ==
    /\ ret.op = "HandleEvent" /\ ret.event.Method = "liquidity_added" /\ ~ret.err
    /\ ret.event.Args.pool_id \in DOMAIN positions
    /\ Len(positions[ret.event.Args.pool_id]) = 1
    /\ positions[ret.event.Args.pool_id][1].User = ret.event.Args.user
    /\ Cardinality({i \in DOMAIN transactions :
                       /\ transactions[i].Type = "deposit"
                       /\ transactions[i].User = ret.event.Args.user
                       /\ transactions[i].PoolID = ret.event.Args.pool_id}) >= 2

\* Whether list `a` holds exactly the entries of list `b`, each once.
SameEntries(a, b) ==
    /\ Len(a) = Len(b)
    /\ \A k \in DOMAIN b : Cardinality({i \in DOMAIN a : a[i] = b[k]}) = 1

\* Whether `result` is a slice, sorted by amount descending, of entries of `b`.
SortedSliceOf(result, b) ==
    /\ \A i \in DOMAIN result : \E k \in DOMAIN b : result[i] = b[k]
    /\ \A i, j \in DOMAIN result : i < j => result[i].Amount >= result[j].Amount
    /\ \A i, j \in DOMAIN result : result[i].User = result[j].User => i = j

C33_ComputeRouteSubmitsNothing ==
    [][/\ ret'.op = "ComputeRoute" => executed' = executed
       /\ (ret.op = "ComputeRoute" /\ ret.result.Success
               /\ ret'.op = "ExecuteTransaction") =>
              Len(executed') = Len(executed) + 1]_vars

\* The executor calls made by the step.
NewCalls == SubSeq(executed', Len(executed) + 1, Len(executed'))

\* C34: ExecuteSwap calls the executor once when assetIn # assetOut and not at
\* all when they are equal; the call carries exactly one transfer.allow intent
\* with token AssetIn and limit AmountIn; Success is true iff the call returned
\* no error, a failed call gives Success = false with an ErrorMessage, and the
\* Go error is nil in every case.
C34_ExecuteSwapCallsOnce ==
    [][ret'.op = "ExecuteSwap" =>
          LET p == ret'.params IN
          /\ SubSeq(executed', 1, Len(executed)) = executed
          /\ Len(NewCalls) = IF p.AssetIn # p.AssetOut THEN 1 ELSE 0
          /\ \A k \in DOMAIN NewCalls :
                 /\ Len(NewCalls[k].intents) = 1
                 /\ NewCalls[k].intents[1].Type = "transfer.allow"
                 /\ NewCalls[k].intents[1].Args.token = p.AssetIn
                 /\ NewCalls[k].intents[1].Args.limit.decimal = p.AmountIn
          /\ p.AssetIn # p.AssetOut => (ret'.result.Success <=> ~ret'.executorErr)
          /\ ret'.executorErr =>
                 (~ret'.result.Success /\ ret'.result.ErrorMessage # "")
          /\ ret'.err = "nil"]_vars

\* An ExecuteSwap whose executor call failed, after an earlier call.
C34_Witness ==
    /\ ret.op = "ExecuteSwap"
    /\ ret.executorErr
    /\ ~ret.result.Success
    /\ Len(executed) = 2
    /\ executed[2].payload.asset_in = ret.params.AssetIn

\* The step is a swap_executed of the router that HandleEvent accepted, in
\* either encoding, for a pool the ledger holds or not.
IsSwapExecuted ==
    /\ IsHandleEvent
    /\ ret'.event.Contract = Router
    /\ ret'.event.Method = "swap_executed"
    /\ ~ret'.err

\* C35: swap_executed changes only pool reserves: the set of pools, every
\* pool's identity, fee and totalSupply and every position (amount and share)
\* are unchanged, and exactly one record, of type swap, is appended.
C35_SwapChangesOnlyReserves ==
    [][IsSwapExecuted =>
          /\ positions' = positions
          /\ DOMAIN pools' = DOMAIN pools
          /\ \A id \in DOMAIN pools :
                 pools'[id] = [pools[id] EXCEPT !.Reserve0 = pools'[id].Reserve0,
                                                !.Reserve1 = pools'[id].Reserve1]
          /\ Len(transactions') = Len(transactions) + 1
          /\ SubSeq(transactions', 1, Len(transactions)) = transactions
          /\ transactions'[Len(transactions')].Type = "swap"
          /\ transactions'[Len(transactions')].ID = ret'.event.TxID]_vars

\* A swap that moved the reserves of a pool with a holder.
C35_Witness ==
    /\ ret.op = "HandleEvent" /\ ret.event.Method = "swap_executed" /\ ~ret.err
    /\ ret.event.Args.pool_id \in DOMAIN pools
    /\ ret.event.Args.pool_id \in DOMAIN positions
    /\ pools[ret.event.Args.pool_id].TotalSupply > 0
    /\ pools[ret.event.Args.pool_id].Reserve0 # pools[ret.event.Args.pool_id].TotalSupply
    /\ Len(positions[ret.event.Args.pool_id]) >= 1

\* C36: a swap_executed in the directional encoding whose assetIn is neither
\* asset0 nor asset1 of the pool (an empty assetIn included) changes neither
\* reserve of the pool.
C36_ForeignAssetLeavesReserves ==
    [][(/\ IsDirectionalSwap
        /\ ~ret'.err
        /\ ret'.event.Args.asset_in # pools[ret'.event.Args.pool_id].Asset0
        /\ ret'.event.Args.asset_in # pools[ret'.event.Args.pool_id].Asset1) =>
          /\ pools'[ret'.event.Args.pool_id].Reserve0 =
                 pools[ret'.event.Args.pool_id].Reserve0
          /\ pools'[ret'.event.Args.pool_id].Reserve1 =
                 pools[ret'.event.Args.pool_id].Reserve1]_vars

\* C37: the fee of a pool is the same number of basis points end to end: the
\* snapshot the querier produces for a pool served by the indexer has the fee
\* of the ledger's pool, and its id, assets and reserves.
C37_FeeEndToEnd ==
    (ret.op \in {"GetPoolByID", "GetPoolsByAsset"} /\ ret.err = "nil") =>
        \A i \in DOMAIN ret.pools :
            /\ ret.pools[i].ContractId \in DOMAIN pools
            /\ LET pool == pools[ret.pools[i].ContractId]
               IN /\ ret.pools[i].Fee = pool.Fee
                  /\ ret.pools[i].Asset0 = pool.Asset0
                  /\ ret.pools[i].Asset1 = pool.Asset1
                  /\ ret.pools[i].Reserve0 = pool.Reserve0
                  /\ ret.pools[i].Reserve1 = pool.Reserve1

\* What the step handed over for the contract.
NewSubmissions == SubSeq(submitted', Len(submitted) + 1, Len(submitted'))

C39_ProofWithinBounds ==
    ret.op = "VerifyDepositProof" =>
        /\ ~ret.panic
        /\ ret.proofLen < 44 => ret.err = "invalid proof length"
        /\ ret.err = "nil" =>
               (ret.lookup.found /\ nodeHeight >= ret.lookup.Height + 6)

====
